---- MODULE Spec2Model ----
(***************************************************************************)
(* Model of the electrum chain synchronisation of bdk                      *)
(* (crates/electrum/src/electrum_ext.rs).                                  *)
(*                                                                         *)
(*   SpecChain   prepare_chain_update run against an electrum server whose *)
(*               chain grows and reorganises while the call is in flight.  *)
(*   SpecAnchor  determine_tx_anchor applied to bounded inputs.            *)
(*   SpecSpks    one call of populate_with_spks, one batch per step.       *)
(*   SpecScan    scan, with its retry loop, against a server whose chain   *)
(*               changes between the steps of an attempt.                  *)
(*                                                                         *)
(* Block hashes.  A block hash commits to the block's whole ancestry, so   *)
(* the hash of the block at height h is modelled as the sequence of the    *)
(* h + 1 branch choices that lead to it from genesis.  Two hashes at the   *)
(* same height are equal exactly when the two chains agree at that height  *)
(* and at every height below it.  The local chain is the all-zero branch.  *)
(***************************************************************************)
EXTENDS Integers, Sequences, FiniteSets, TLC

\* Highest block height of the model (heights are 0..MaxHeight).
MaxHeight == 3
\* Highest block height of the previous checkpoint.
MaxPrevHeight == 2
\* Number of chain events (new block, reorg) the server goes through during one call.
MaxEvents == 1

VARIABLES
    \* ---- electrum server (environment of prepare_chain_update)
    chain,          \* the server's best chain: chain[h + 1] is the branch bit of height h
    notifs,         \* header notifications queued in the client, oldest first
    events,         \* number of chain events so far
    \* ---- CheckPoint storage
    arena,          \* immutable checkpoint nodes; a CheckPoint is the index of its head node
    prev_tip,       \* argument prev_tip: Option<CheckPoint>; 0 is None
    \* ---- locals of prepare_chain_update
    pc,             \* "subscribe", "walk", "pop", "done"; "idle" when not called
    height,         \* let mut height
    header,         \* let mut header
    new_blocks,     \* BTreeMap<u32, BlockHash>
    agreement_cp,   \* Option<CheckPoint>; 0 is None
    cursor,         \* position of the iterator over prev_tip; 0 is exhausted
    result,         \* what the call returned
    \* ---- history variables
    reply,          \* the server's reply to the latest remote call
    answered,       \* height -> hash returned by block_header in the current pass
    seed,           \* the tip notification that seeded the current pass
    quiet,          \* the chain has not changed since the header that seeded the current pass
    \* ---- determine_tx_anchor
    a_pc,           \* "call", "returned"; "idle" when not called
    a_txid,         \* argument txid
    a_block,        \* argument anchor_block
    a_raw,          \* argument raw_height
    debug_assertions, \* whether the build has debug assertions enabled
    a_result,       \* what the call produced
    \* ---- electrum server (environment of scan and populate_with_spks)
    spk_history,    \* script -> its history: a sequence of [tx_hash, height]
    s_chain,        \* the server's best chain during scan
    s_events,       \* number of chain events during scan
    \* ---- arguments
    stop_gap,       \* stop_gap: usize
    batch_size,     \* batch_size: usize
    txids,          \* txids, collected into a Vec
    \* ---- locals of populate_with_spks
    p_pc,           \* "loop", "returned", "error"; "idle" when not called on its own
    spks,           \* argument spks: the iterator the call draws from
    unused_spk_count, \* let mut unused_spk_count
    p_scanned_spks, \* let mut scanned_spks of populate_with_spks
    \* ---- locals of scan
    s_pc,           \* "reconcile", "spks", "lookups", "check", "done"; "idle" when not called
    request_spks,   \* BTreeMap<K, iterator>
    scanned_spks,   \* BTreeMap<(K, u32), (Script, bool)>
    s_anchor_block, \* let anchor_block = update.chain_update.block_id()
    update,         \* ElectrumUpdate: chain_update (its head), graph_update, keychain_update
    s_result,       \* what scan returned
    \* ---- history variables
    queried,        \* the items sent in batch_script_get_history by the call so far
    attempts,       \* number of attempts of scan started so far
    replayed,       \* the keys recorded before the attempt, and those its replay went through
    s_fault,        \* the error a remote call of scan met, and the step it was made in
    \* ---- electrum server (environment of the targeted lookups)
    txs,            \* txid -> the transaction: its outputs' scripts and its inputs' outpoints
    \* ---- arguments
    outpoints,      \* outpoints, collected into a Vec
    \* ---- locals of populate_with_txids and populate_with_outpoints
    l_pc,           \* "txids", "outpoints", "done"; "idle" when not called on its own
    l_i,            \* number of items the for loop has gone through
    full_txs,       \* let mut full_txs: the txids whose transaction is cached
    l_result,       \* what the call returned
    \* ---- history variables
    l_log,          \* the server's replies, one record for each item gone through
    \* ---- finalize and finalize_as_confirmation_time
    seen_at,        \* argument seen_at: Option<u64>
    missing,        \* argument missing: Vec<Txid>
    f_pc,           \* "finalize", "finalize_as_confirmation_time", "headers", "done"; "idle"
    final,          \* the LocalUpdate of finalize, and what the call returned
    f_log,          \* history: the batch calls of finalize, their arguments and replies
    \* ---- persistence backend (crates/persist)
    changeset,      \* TestBackend.changeset: what the backend holds
    staged,         \* TestBackend.staged: the changes not committed yet
    c_op,           \* the latest operation: "stage", "commit", "stage_and_commit"
    c_result,       \* what the latest commit returned
    \* ---- history variables
    c_written,      \* the write_changes call of the latest operation, if it made one
    since           \* the changesets staged since the last commit that wrote, oldest first

chainVars  == <<chain, notifs, events, arena, prev_tip, pc, height, header, new_blocks,
                agreement_cp, cursor, result, reply, answered, seed, quiet>>
anchorVars == <<a_pc, a_txid, a_block, a_raw, debug_assertions, a_result>>
scanVars   == <<spk_history, s_chain, s_events, stop_gap, batch_size, txids, p_pc, spks,
                unused_spk_count, p_scanned_spks, s_pc, request_spks, scanned_spks,
                s_anchor_block, update, s_result, queried, attempts, s_fault,
                replayed>>
lookupVars == <<txs, outpoints, l_pc, l_i, full_txs, l_result, l_log>>
finalVars  == <<seen_at, missing, f_pc, final, f_log>>
persistVars == <<changeset, staged, c_op, c_result, c_written, since>>
moreVars   == <<lookupVars, finalVars, persistVars>>
vars       == <<chainVars, anchorVars, scanVars, moreVars>>

Heights == 0..MaxHeight
Bits    == {0, 1}

Min(S) == CHOOSE x \in S : \A y \in S : x <= y
Max(S) == CHOOSE x \in S : \A y \in S : x >= y

\* The empty map.
EmptyMap == [h \in {} |-> 0]

(***************************************************************************)
(* Hashes and headers                                                      *)
(***************************************************************************)
\* Hash of the block at height h of chain c.
HashAt(c, h) == SubSeq(c, 1, h + 1)

\* Hash of the block at height h of the local chain.
LocalHash(h) == [i \in 1..(h + 1) |-> 0]

\* Header of the block at height h of chain c: header.block_hash() and header.prev_blockhash.
HeaderAt(c, h) == [block_hash |-> HashAt(c, h), prev_blockhash |-> SubSeq(c, 1, h)]

\* The notification the server sends for the tip of chain c.
TipNotification(c) == [height |-> Len(c) - 1, header |-> HeaderAt(c, Len(c) - 1)]

NoHeader == [block_hash |-> <<>>, prev_blockhash |-> <<>>]

\* Errors of the electrum client.
Errors == {"Transport", "Protocol"}

(***************************************************************************)
(* CheckPoint: a backward linked list of immutable, shared nodes.          *)
(***************************************************************************)
\* CheckPoint::new
CheckPointNew(ar, block) ==
    [arena |-> Append(ar, [block |-> block, prev |-> 0]), cp |-> Len(ar) + 1]

\* CheckPoint::extend: fails unless the new height is strictly greater than the head's.
CheckPointExtend(ar, cp, block) ==
    IF ar[cp].block.height < block.height
    THEN [ok |-> TRUE, arena |-> Append(ar, [block |-> block, prev |-> cp]), cp |-> Len(ar) + 1]
    ELSE [ok |-> FALSE, arena |-> ar, cp |-> cp]

\* CheckPoint::iter: the nodes from cp backward, cp first.
RECURSIVE CheckPointIter(_, _)
CheckPointIter(ar, cp) ==
    IF cp = 0 THEN <<>> ELSE <<cp>> \o CheckPointIter(ar, ar[cp].prev)

\* The nodes of the checkpoint cp, as a set.
Nodes(ar, cp) == {CheckPointIter(ar, cp)[i] : i \in 1..Len(CheckPointIter(ar, cp))}

\* The blocks of the checkpoint cp, as a set of BlockIds.
Blocks(ar, cp) == {ar[n].block : n \in Nodes(ar, cp)}

\* The sequence of the members of the set of heights S, ascending.
RECURSIVE Ascending(_)
Ascending(S) == IF S = {} THEN <<>> ELSE <<Min(S)>> \o Ascending(S \ {Min(S)})

\* The arena of a checkpoint of the local chain that holds the heights S.
LocalArena(S) ==
    [i \in 1..Cardinality(S) |->
        [block |-> [height |-> Ascending(S)[i], hash |-> LocalHash(Ascending(S)[i])],
         prev  |-> i - 1]]

(***************************************************************************)
(* The electrum server                                                     *)
(***************************************************************************)
\* Whether every block of chain c is the local chain's block.
OnLocal(c) == \A i \in 1..Len(c) : c[i] = 0

\* The ways to mine n more blocks on top of chain c.  Above a block that is not the
\* local chain's, a branch bit tells nothing more (the hash already differs from the
\* local one through its ancestry), so it is 1; on top of the local chain the new
\* blocks follow the local chain for k blocks and leave it then.
Mined(c, n) ==
    IF OnLocal(c)
    THEN {c \o [i \in 1..n |-> IF i <= k THEN 0 ELSE 1] : k \in 0..n}
    ELSE {c \o [i \in 1..n |-> 1]}

Ok(v)    == [err |-> "", val |-> v]
Fail(e)  == [err |-> e, val |-> TipNotification(<<0>>)]
NoReply  == [call |-> "", err |-> ""]
Call(name, r) == [call |-> name, err |-> r.err]

\* blockchain.headers.subscribe: the current tip, or an error.
SubscribeReplies == {Ok(TipNotification(chain))} \cup {Fail(e) : e \in Errors}

\* blockchain.block.header: the header at height h; the server answers a height above
\* its tip with a protocol error.
BlockHeaderReplies(h) ==
    (IF h < Len(chain)
        THEN {Ok([height |-> h, header |-> HeaderAt(chain, h)])}
        ELSE {Fail("Protocol")})
    \cup {Fail("Transport")}

\* block_headers_pop: the oldest queued notification, None (height -1 here) when the
\* queue is empty, or an error.
NoneNotification == [height |-> -1, header |-> NoHeader]
PopReplies ==
    {Ok(IF notifs = <<>> THEN NoneNotification ELSE Head(notifs))}
    \cup {Fail("Transport")}

(***************************************************************************)
(* prepare_chain_update                                                    *)
(***************************************************************************)
NoResult   == [tag |-> "None",  cp |-> 0,  err |-> ""]
RetOk(cp)  == [tag |-> "Ok",    cp |-> cp, err |-> ""]
RetErr(e)  == [tag |-> "Err",   cp |-> 0,  err |-> e]
Panic(msg) == [tag |-> "Panic", cp |-> 0,  err |-> msg]

\* BTreeMap::insert
Insert(m, k, v) == [x \in DOMAIN m \cup {k} |-> IF x = k THEN v ELSE m[x]]

\* BTreeMap::split_off(&k): the entries whose key is >= k.
SplitOff(m, k) == [x \in {y \in DOMAIN m : y >= k} |-> m[x]]

\* SeedBlocks without the parent of the tip.
SeedBlocksTipOnly(h, hdr) == Insert(EmptyMap, h, hdr.block_hash)

\* The candidate blocks of a pass: the tip, and its parent when the tip is not genesis.
SeedBlocks(h, hdr) ==
    LET tipOnly == Insert(EmptyMap, h, hdr.block_hash)
    IN  IF h >= 1 THEN Insert(tipOnly, h - 1, hdr.prev_blockhash) ELSE tipOnly

\* Agrees with the comparison inverted.
AgreesInverted(hash, cp_block) == hash # cp_block.hash

\* Whether the server's hash at a checkpoint's height is the checkpoint's hash.
Agrees(hash, cp_block) == hash = cp_block.hash

\* RecordChanged recording the checkpoint's own hash.
RecordChangedLocal(blocks, cp_block, hash) == Insert(blocks, cp_block.height, cp_block.hash)

\* A visited height that does not agree is recorded with the server's hash.
RecordChanged(blocks, cp_block, hash) == Insert(blocks, cp_block.height, hash)

\* MayBeReorg that lets a notification of the same height pass.
MayBeReorgStrict(new_height, old_height) == new_height < old_height

\* Whether a popped notification makes the reconciliation start over.
MayBeReorg(new_height, old_height) == new_height <= old_height

\* TruncateNewBlocks that splits at the agreement height itself.
TruncateAtAgreement(blocks, ar, agreement) ==
    IF agreement # 0
    THEN SplitOff(blocks, ar[agreement].block.height)
    ELSE blocks

\* TruncateNewBlocks that takes a missing agreement point for one at height 0.
TruncateAlways(blocks, ar, agreement) ==
    SplitOff(blocks, (IF agreement # 0 THEN ar[agreement].block.height ELSE 0) + 1)

\* The blocks that are kept once the queue is drained: those above the agreement point.
TruncateNewBlocks(blocks, ar, agreement) ==
    IF agreement # 0
    THEN SplitOff(blocks, ar[agreement].block.height + 1)
    ELSE blocks

\* ExtendStep that starts a checkpoint at every turn.
ExtendStepAlwaysNew(ar, last_cp, block) == [ok |-> TRUE] @@ CheckPointNew(ar, block)

\* One turn of the construction loop: extend last_cp, or start a checkpoint.
ExtendStep(ar, last_cp, block) ==
    IF last_cp # 0
    THEN CheckPointExtend(ar, last_cp, block)
    ELSE [ok |-> TRUE] @@ CheckPointNew(ar, block)

\* The construction loop and the final expect.
RECURSIVE ConstructCheckPoints(_, _, _)
ConstructCheckPoints(ar, last_cp, blocks) ==
    IF DOMAIN blocks = {}
    THEN [arena  |-> ar,
          result |-> IF last_cp = 0 THEN Panic("must have atleast one checkpoint")
                                    ELSE RetOk(last_cp)]
    ELSE LET h    == Min(DOMAIN blocks)
             step == ExtendStep(ar, last_cp, [height |-> h, hash |-> blocks[h]])
         IN  IF ~step.ok
             THEN [arena |-> ar, result |-> Panic("must extend checkpoint")]
             ELSE ConstructCheckPoints(step.arena, step.cp,
                                       [x \in DOMAIN blocks \ {h} |-> blocks[x]])

\* ReturnErr that ignores the error and goes on to the tip check.
ReturnErrSwallowed(e) ==
    /\ pc' = "pop"
    /\ UNCHANGED <<arena, height, header, new_blocks, agreement_cp, cursor, answered,
                   seed, quiet, result>>

\* The call returns an error: `?` on a remote call.
ReturnErr(e) ==
    /\ pc' = "done"
    /\ result' = RetErr(e)
    /\ UNCHANGED <<arena, height, header, new_blocks, agreement_cp, cursor, answered,
                   seed, quiet>>

\* The top of 'retry: seed the candidate blocks from (h, hdr) and start the walk over.
StartPass(h, hdr, isQuiet) ==
    /\ height' = h
    /\ header' = hdr
    /\ new_blocks' = SeedBlocks(h, hdr)
    /\ agreement_cp' = 0
    /\ cursor' = prev_tip
    /\ answered' = EmptyMap
    /\ seed' = [height |-> h, header |-> hdr]
    /\ quiet' = isQuiet
    /\ pc' = IF prev_tip = 0 THEN "pop" ELSE "walk"
    /\ UNCHANGED <<arena, result>>

\* let HeaderNotification { height, mut header } = client.block_headers_subscribe()?;
Subscribe ==
    /\ pc = "subscribe"
    /\ \E r \in SubscribeReplies :
        /\ reply' = Call("block_headers_subscribe", r)
        /\ IF r.err # "" THEN ReturnErr(r.err)
           ELSE StartPass(r.val.height, r.val.header, TRUE)
    /\ UNCHANGED <<chain, notifs, events, prev_tip, anchorVars, scanVars, moreVars>>

\* One turn of `for cp in prev_tip.iter().flat_map(CheckPoint::iter)`.
Walk ==
    /\ pc = "walk"
    /\ cursor # 0
    /\ LET cp_block == arena[cursor].block IN
       \E r \in BlockHeaderReplies(cp_block.height) :
        /\ reply' = Call("block_header", r)
        /\ IF r.err # "" THEN ReturnErr(r.err)
           ELSE LET hash == r.val.header.block_hash IN
                /\ answered' = Insert(answered, cp_block.height, hash)
                /\ IF Agrees(hash, cp_block)
                   THEN /\ agreement_cp' = cursor
                        /\ pc' = "pop"
                        /\ UNCHANGED <<new_blocks, cursor>>
                   ELSE /\ new_blocks' = RecordChanged(new_blocks, cp_block, hash)
                        /\ cursor' = arena[cursor].prev
                        /\ pc' = IF arena[cursor].prev = 0 THEN "pop" ELSE "walk"
                        /\ UNCHANGED agreement_cp
                /\ UNCHANGED <<arena, height, header, result, seed, quiet>>
    /\ UNCHANGED <<chain, notifs, events, prev_tip, anchorVars, scanVars, moreVars>>

\* A tip check that starts over on a notification without taking it off the queue.
PopKeepsNotification ==
    /\ pc = "pop"
    /\ \E r \in PopReplies :
        /\ reply' = Call("block_headers_pop", r)
        /\ IF r.err # ""
           THEN ReturnErr(r.err) /\ UNCHANGED notifs
           ELSE IF r.val # NoneNotification
           THEN IF MayBeReorg(r.val.height, height)
                THEN StartPass(r.val.height, r.val.header, FALSE) /\ UNCHANGED notifs
                ELSE /\ notifs' = Tail(notifs)
                     /\ height' = r.val.height
                     /\ header' = r.val.header
                     /\ UNCHANGED <<arena, pc, new_blocks, agreement_cp, cursor,
                                    result, answered, seed, quiet>>
           ELSE LET blocks == TruncateNewBlocks(new_blocks, arena, agreement_cp)
                    built  == ConstructCheckPoints(arena, agreement_cp, blocks)
                IN  /\ new_blocks' = blocks
                    /\ arena' = built.arena
                    /\ result' = built.result
                    /\ pc' = "done"
                    /\ UNCHANGED <<notifs, height, header, agreement_cp, cursor,
                                   answered, seed, quiet>>
    /\ UNCHANGED <<chain, events, prev_tip, anchorVars, scanVars, moreVars>>

\* One turn of the `check for tip changes` loop, with the construction of the
\* checkpoint when the queue is drained.
Pop ==
    /\ pc = "pop"
    /\ \E r \in PopReplies :
        /\ reply' = Call("block_headers_pop", r)
        /\ IF r.err # ""
           THEN ReturnErr(r.err) /\ UNCHANGED notifs
           ELSE IF r.val # NoneNotification
           THEN /\ notifs' = Tail(notifs)
                /\ IF MayBeReorg(r.val.height, height)
                   THEN StartPass(r.val.height, r.val.header, Tail(notifs) = <<>>)
                   ELSE /\ height' = r.val.height
                        /\ header' = r.val.header
                        /\ UNCHANGED <<arena, pc, new_blocks, agreement_cp, cursor,
                                       result, answered, seed, quiet>>
           ELSE LET blocks == TruncateNewBlocks(new_blocks, arena, agreement_cp)
                    built  == ConstructCheckPoints(arena, agreement_cp, blocks)
                IN  /\ new_blocks' = blocks
                    /\ arena' = built.arena
                    /\ result' = built.result
                    /\ pc' = "done"
                    /\ UNCHANGED <<notifs, height, header, agreement_cp, cursor,
                                   answered, seed, quiet>>
    /\ UNCHANGED <<chain, events, prev_tip, anchorVars, scanVars, moreVars>>

\* The server's chain changes to c while the call is in flight; the client queues the
\* notification of the new tip.
ChainEvent(c) ==
    /\ pc \in {"walk", "pop"}
    /\ events < MaxEvents
    /\ chain' = c
    /\ notifs' = Append(notifs, TipNotification(c))
    /\ events' = events + 1
    /\ quiet' = FALSE
    /\ UNCHANGED <<arena, prev_tip, pc, height, header, new_blocks, agreement_cp, cursor,
                   result, reply, answered, seed, anchorVars, scanVars, moreVars>>

\* A block is mined on the server's tip.
NewBlock ==
    /\ Len(chain) <= MaxHeight
    /\ \E c \in Mined(chain, 1) : ChainEvent(c)

\* The server switches to a chain that forks off below height f.
Reorg ==
    \E f \in 0..(Len(chain) - 1) :
        \E n \in 0..(MaxHeight - f) :
            \E c \in Mined(SubSeq(chain, 1, f) \o <<1 - chain[f + 1]>>, n) :
                ChainEvent(c)

(***************************************************************************)
(* determine_tx_anchor                                                     *)
(***************************************************************************)
\* Negative reported heights go down to -MaxNegative.
MaxNegative == 2

GenesisCoinbaseTxid == "4a5e1e4baab89f3a32518a88c31bc87f618f76673e2cc77ab2127b7afdeda33b"
Txids == {GenesisCoinbaseTxid, "tx1", "tx2"}

\* raw_height: i32
RawHeights == (0 - MaxNegative)..(MaxHeight + 1)

AnchorBlocks ==
    UNION {{[height |-> h, hash |-> c] : c \in Mined(<<>>, h + 1)} : h \in Heights}

\* Option<ConfirmationHeightAnchor>, or the panic of a failed debug_assert!
SomeAnchor(anchor_block, h) ==
    [tag |-> "Some", anchor_block |-> anchor_block, confirmation_height |-> h]
NoneAnchor ==
    [tag |-> "None", anchor_block |-> [height |-> 0, hash |-> LocalHash(0)],
     confirmation_height |-> 0]
AnchorPanic ==
    [tag |-> "Panic", anchor_block |-> [height |-> 0, hash |-> LocalHash(0)],
     confirmation_height |-> 0]

\* h as u32, taken of a positive i32 only: the value is kept.
AsU32(h) == h

\* determine_tx_anchor with the bound on the anchor height off by one.
DetermineTxAnchorOffByOne(anchor_block, raw_height, txid) ==
    IF txid = GenesisCoinbaseTxid THEN SomeAnchor(anchor_block, 0)
    ELSE IF raw_height <= 0
    THEN IF debug_assertions /\ ~(raw_height = 0 \/ raw_height = -1)
         THEN AnchorPanic ELSE NoneAnchor
    ELSE IF AsU32(raw_height) >= anchor_block.height
         THEN NoneAnchor
         ELSE SomeAnchor(anchor_block, AsU32(raw_height))

\* determine_tx_anchor without the bound on the anchor height.
DetermineTxAnchorNoBound(anchor_block, raw_height, txid) ==
    IF txid = GenesisCoinbaseTxid THEN SomeAnchor(anchor_block, 0)
    ELSE IF raw_height <= 0
    THEN IF debug_assertions /\ ~(raw_height = 0 \/ raw_height = -1)
         THEN AnchorPanic ELSE NoneAnchor
    ELSE SomeAnchor(anchor_block, AsU32(raw_height))

\* determine_tx_anchor with the genesis coinbase looked at after the height.
DetermineTxAnchorGenesisLast(anchor_block, raw_height, txid) ==
    IF raw_height <= 0
    THEN IF debug_assertions /\ ~(raw_height = 0 \/ raw_height = -1)
         THEN AnchorPanic ELSE NoneAnchor
    ELSE IF txid = GenesisCoinbaseTxid THEN SomeAnchor(anchor_block, 0)
    ELSE IF AsU32(raw_height) > anchor_block.height
         THEN NoneAnchor
         ELSE SomeAnchor(anchor_block, AsU32(raw_height))

DetermineTxAnchor(anchor_block, raw_height, txid) ==
    IF txid = GenesisCoinbaseTxid THEN SomeAnchor(anchor_block, 0)
    ELSE IF raw_height <= 0
    THEN IF debug_assertions /\ ~(raw_height = 0 \/ raw_height = -1)
         THEN AnchorPanic ELSE NoneAnchor
    ELSE IF AsU32(raw_height) > anchor_block.height
         THEN NoneAnchor
         ELSE SomeAnchor(anchor_block, AsU32(raw_height))

\* A call of determine_tx_anchor on the arguments at hand.
Classify ==
    /\ a_pc = "call"
    /\ a_result' = DetermineTxAnchor(a_block, a_raw, a_txid)
    /\ a_pc' = "returned"
    /\ UNCHANGED <<a_txid, a_block, a_raw, debug_assertions, chainVars, scanVars, moreVars>>

\* The caller goes on to the next history entry, with the same anchor block.
NextEntry ==
    /\ a_pc = "returned"
    /\ a_result.tag # "Panic"
    /\ a_txid' \in Txids
    /\ a_raw' \in RawHeights
    /\ a_pc' = "call"
    /\ UNCHANGED <<a_block, debug_assertions, a_result, chainVars, scanVars, moreVars>>

\* No attempt of scan has gone through its scripts.
NoReplay == [had |-> {}, again |-> {}]

\* No remote call of scan has met an error.
NoFault == [step |-> "", err |-> ""]

\* scan and populate_with_spks are not called.
InitScanIdle ==
    /\ spk_history = EmptyMap
    /\ s_chain = <<0>>
    /\ s_events = 0
    /\ stop_gap = 0
    /\ batch_size = 1
    /\ txids = <<>>
    /\ p_pc = "idle"
    /\ spks = <<>>
    /\ unused_spk_count = 0
    /\ p_scanned_spks = EmptyMap
    /\ s_pc = "idle"
    /\ request_spks = EmptyMap
    /\ scanned_spks = EmptyMap
    /\ s_anchor_block = [height |-> 0, hash |-> LocalHash(0)]
    /\ update = [chain_update |-> [height |-> 0, hash |-> LocalHash(0)],
                 graph_update |-> EmptyMap, keychain_update |-> EmptyMap]
    /\ s_result = [tag |-> "None", err |-> ""]
    /\ queried = {}
    /\ attempts = 0
    /\ s_fault = NoFault
    /\ replayed = NoReplay

\* A changeset that holds nothing: C::default().
DefaultChangeSet == [text |-> "", items |-> {}]

\* What commit returned.
NoCommit == [tag |-> "None", val |-> DefaultChangeSet]

\* No write_changes call.
\* applied is history: the changesets that commits have written so far, appended one
\* after the other in the order of the commits.
NoWrite == [called |-> FALSE, arg |-> DefaultChangeSet, due |-> <<>>,
            applied |-> DefaultChangeSet]

\* The persistence backend is not used.
InitPersistIdle ==
    /\ changeset = DefaultChangeSet
    /\ staged = DefaultChangeSet
    /\ c_op = "idle"
    /\ c_result = NoCommit
    /\ c_written = NoWrite
    /\ since = <<>>

\* The targeted lookups are not called.
InitLookupIdle ==
    /\ txs = EmptyMap
    /\ outpoints = <<>>
    /\ l_pc = "idle"
    /\ l_i = 0
    /\ full_txs = {}
    /\ l_result = [tag |-> "None", err |-> ""]
    /\ l_log = <<>>

\* Option<u64>
NoneU64 == [some |-> FALSE, val |-> 0]
SomeU64(t) == [some |-> TRUE, val |-> t]

\* Nothing returned by finalize yet.
NoFinal == [tag |-> "None"]

\* finalize is not called.
InitFinalIdle ==
    /\ seen_at = NoneU64
    /\ missing = <<>>
    /\ f_pc = "idle"
    /\ final = NoFinal
    /\ f_log = <<>>

\* The parts of the model that a call of the electrum client leaves idle.
InitMoreIdle == InitLookupIdle /\ InitFinalIdle /\ InitPersistIdle

InitChainIdle ==
    /\ chain = <<0>>
    /\ notifs = <<>>
    /\ events = 0
    /\ arena = <<>>
    /\ prev_tip = 0
    /\ pc = "idle"
    /\ height = 0
    /\ header = NoHeader
    /\ new_blocks = EmptyMap
    /\ agreement_cp = 0
    /\ cursor = 0
    /\ result = NoResult
    /\ reply = NoReply
    /\ answered = EmptyMap
    /\ seed = NoneNotification
    /\ quiet = TRUE

InitAnchor ==
    /\ a_pc = "call"
    /\ a_txid \in Txids
    /\ a_block \in AnchorBlocks
    /\ a_raw \in RawHeights
    /\ debug_assertions \in BOOLEAN
    /\ a_result = NoneAnchor
    /\ InitChainIdle
    /\ InitScanIdle
    /\ InitMoreIdle

NextAnchor == Classify \/ NextEntry

SpecAnchor == InitAnchor /\ [][NextAnchor]_vars

InitAnchorIdle ==
    /\ a_pc = "idle"
    /\ a_txid = ""
    /\ a_block = [height |-> 0, hash |-> LocalHash(0)]
    /\ a_raw = 0
    /\ debug_assertions = FALSE
    /\ a_result = NoneAnchor

InitChain ==
    /\ \E n \in 1..(MaxHeight + 1) : chain \in Mined(<<>>, n)
    /\ notifs = <<>>
    /\ events = 0
    /\ \E S \in SUBSET (0..MaxPrevHeight) :
        /\ arena = LocalArena(S)
        /\ prev_tip = Cardinality(S)
    /\ pc = "subscribe"
    /\ height = 0
    /\ header = NoHeader
    /\ new_blocks = EmptyMap
    /\ agreement_cp = 0
    /\ cursor = 0
    /\ result = NoResult
    /\ reply = NoReply
    /\ answered = EmptyMap
    /\ seed = NoneNotification
    /\ quiet = TRUE
    /\ InitAnchorIdle
    /\ InitScanIdle
    /\ InitMoreIdle

NextChain == Subscribe \/ Walk \/ Pop \/ NewBlock \/ Reorg

SpecChain == InitChain /\ [][NextChain]_vars

(***************************************************************************)
(* Properties of prepare_chain_update                                      *)
(***************************************************************************)
ReturnedOk == pc = "done" /\ result.tag = "Ok"

PrevNodes   == Nodes(arena, prev_tip)
PrevBlocks  == Blocks(arena, prev_tip)
PrevHeights == {b.height : b \in PrevBlocks}
PrevHash(h) == (CHOOSE b \in PrevBlocks : b.height = h).hash
PrevTipHeight == arena[prev_tip].block.height

ResultNodes  == Nodes(arena, result.cp)
ResultBlocks == Blocks(arena, result.cp)

AgreementHeight == arena[agreement_cp].block.height

\* The server's tip height and its block at height h.
TipHeight == Len(chain) - 1
RemoteBlock(h) == [height |-> h, hash |-> HashAt(chain, h)]

\* The previous checkpoint's heights at which the server reports the checkpoint's hash.
AgreeingHeights == {h \in PrevHeights : h <= TipHeight /\ HashAt(chain, h) = PrevHash(h)}

\* The nodes of the previous checkpoint are as the caller passed them.
PrevUntouched ==
    \A n \in PrevNodes :
        /\ arena[n].prev = n - 1
        /\ arena[n].block.hash = LocalHash(arena[n].block.height)

\* C1: when the call returns Ok and found a point of agreement, the returned checkpoint
\* contains the agreement node itself, every block of the previous checkpoint at or
\* below the agreement height is in the result unchanged, and the result differs from
\* the previous checkpoint only at heights strictly above the agreement height.
AgreementPrefixKept ==
    (ReturnedOk /\ agreement_cp # 0) =>
        /\ agreement_cp \in PrevNodes
        /\ agreement_cp \in ResultNodes
        /\ PrevUntouched
        /\ \A b \in PrevBlocks : b.height <= AgreementHeight => b \in ResultBlocks
        /\ \A b \in ResultBlocks : b.height <= AgreementHeight => b \in PrevBlocks

\* C1 witness: a returned checkpoint that keeps a proper prefix of the previous one
\* and puts new blocks on it.
AgreementPrefixKeptWitness ==
    /\ ReturnedOk
    /\ agreement_cp # 0
    /\ agreement_cp < prev_tip
    /\ result.cp # agreement_cp

\* The heights for which the server reported a hash in the current pass, and the hash
\* it reported last: the answer of block_header, else the seeding header's.
ReportedHeights == DOMAIN answered \cup {h \in {seed.height - 1, seed.height} : h >= 0}
Reported(h) ==
    IF h \in DOMAIN answered THEN answered[h]
    ELSE IF h = seed.height THEN seed.header.block_hash
    ELSE seed.header.prev_blockhash

\* The blocks of the result above the point of agreement (all of them when there is none).
AboveAgreement ==
    {b \in ResultBlocks : agreement_cp = 0 \/ b.height > AgreementHeight}

NoReorg ==
    /\ prev_tip # 0
    /\ \A b \in PrevBlocks : b.height <= TipHeight /\ b = RemoteBlock(b.height)

\* The blocks of the result above the previous tip.
SuffixAbovePrevTip == {b \in ResultBlocks : b.height > PrevTipHeight}

\* The result holds the previous checkpoint, node for node, below its new blocks.
PrefixIsPrev ==
    /\ prev_tip \in ResultNodes
    /\ PrevUntouched
    /\ {b \in ResultBlocks : b.height <= PrevTipHeight} = PrevBlocks

\* C3 as stated: with no reorg, the suffix of the result above the previous tip is
\* exactly the server's new blocks, and the prefix is the previous checkpoint.
ConvergenceAllNewBlocks ==
    (ReturnedOk /\ quiet /\ NoReorg) =>
        /\ SuffixAbovePrevTip = {RemoteBlock(h) : h \in (PrevTipHeight + 1)..TipHeight}
        /\ PrefixIsPrev

\* C3 amended: with no reorg, the suffix of the result above the previous tip is
\* exactly the server's tip and the tip's parent, as far as they are above the
\* previous tip, and the prefix is the previous checkpoint.
ConvergenceTipAndParent ==
    (ReturnedOk /\ quiet /\ NoReorg) =>
        /\ SuffixAbovePrevTip =
              {RemoteBlock(h) : h \in {x \in {TipHeight - 1, TipHeight} : x > PrevTipHeight}}
        /\ PrefixIsPrev

\* C3 witness: the server is two blocks ahead of a previous checkpoint it agrees with,
\* and the call returned.
ConvergenceWitness ==
    /\ ReturnedOk
    /\ quiet
    /\ NoReorg
    /\ TipHeight = PrevTipHeight + 2

\* C4: no extend fails and the final expect finds a checkpoint, so the call never
\* panics; a returned checkpoint holds at least one block and its heights strictly
\* decrease from each node to its predecessor.
CheckpointMonotonic ==
    /\ result.tag # "Panic"
    /\ ReturnedOk =>
        /\ ResultNodes # {}
        /\ \A n \in ResultNodes :
            arena[n].prev # 0 => arena[arena[n].prev].block.height < arena[n].block.height

\* C4 witness: a returned checkpoint for which two blocks were appended to the
\* agreement node, the lower of them right above the agreement height.
CheckpointMonotonicWitness ==
    /\ ReturnedOk
    /\ agreement_cp # 0
    /\ Len(arena) = prev_tip + 2
    /\ arena[prev_tip + 1].block.height = AgreementHeight + 1

\* C5: once the walk of a pass is over, the agreement point is the highest height of
\* the previous checkpoint at which the server's answer was the local hash; no height
\* below it was queried; every height visited above it is recorded with the server's
\* answer; and when the server's chain did not change during the pass, it is the
\* highest height of the previous checkpoint at which the server's chain has the local
\* hash.
AgreementIsHighest ==
    (pc = "pop" \/ ReturnedOk) =>
        /\ agreement_cp # 0 =>
            /\ DOMAIN answered = {h \in PrevHeights : h >= AgreementHeight}
            /\ answered[AgreementHeight] = PrevHash(AgreementHeight)
            /\ \A h \in DOMAIN answered : h > AgreementHeight =>
                /\ answered[h] # PrevHash(h)
                /\ new_blocks[h] = answered[h]
            /\ ReturnedOk => \A h \in DOMAIN new_blocks : h > AgreementHeight
            /\ quiet => AgreeingHeights # {} /\ AgreementHeight = Max(AgreeingHeights)
        /\ agreement_cp = 0 =>
            /\ DOMAIN answered = PrevHeights
            /\ \A h \in DOMAIN answered :
                /\ answered[h] # PrevHash(h)
                /\ new_blocks[h] = answered[h]
            /\ quiet => AgreeingHeights = {}

\* C5 witness: the call returned with an agreement point that has a replaced height
\* above it and an unvisited height below it.
AgreementIsHighestWitness ==
    /\ ReturnedOk
    /\ agreement_cp # 0
    /\ agreement_cp < prev_tip
    /\ agreement_cp > 1

\* A step that pops a notification.
PopsNotification == pc = "pop" /\ notifs # <<>> /\ notifs' = Tail(notifs)

\* C6: a popped notification whose height is not strictly greater than the last
\* observed one starts the reconciliation over: the candidate blocks are the tip of
\* the notification and its parent, there is no agreement point and the walk begins at
\* the head of the previous checkpoint; and the call returns Ok only from a pop that
\* finds the queue empty.
RestartOnStaleTip ==
    [][ /\ (PopsNotification /\ Head(notifs).height <= height) =>
            /\ pc' = (IF prev_tip = 0 THEN "pop" ELSE "walk")
            /\ height' = Head(notifs).height
            /\ DOMAIN new_blocks' = {h \in {height' - 1, height'} : h >= 0}
            /\ new_blocks'[height'] = Head(notifs).header.block_hash
            /\ height' >= 1 => new_blocks'[height' - 1] = Head(notifs).header.prev_blockhash
            /\ agreement_cp' = 0
            /\ cursor' = prev_tip
            /\ answered' = EmptyMap
            /\ result' = NoResult
        /\ (pc # "done" /\ pc' = "done" /\ result'.tag = "Ok") =>
            /\ pc = "pop"
            /\ notifs = <<>>
            /\ reply'.call = "block_headers_pop"
      ]_vars

\* C6 witness: the walk is running again after a pop.
RestartOnStaleTipWitness ==
    /\ pc = "walk"
    /\ reply.call = "block_headers_pop"
    /\ cursor = prev_tip
    /\ events > 0

\* The blocks of a map of heights to hashes.
BlocksOf(m) == {[height |-> h, hash |-> m[h]] : h \in DOMAIN m}

\* C7: when the queue is found empty and the walk found no agreement point, the call
\* returns Ok with a checkpoint made of new nodes only, whose blocks are all the
\* candidate blocks: every height of the previous checkpoint with the server's
\* answer, and (when the chain did not change during the pass) the server's tip and
\* its parent.
NoAgreementFromScratch ==
    (pc = "done" /\ reply = [call |-> "block_headers_pop", err |-> ""] /\ agreement_cp = 0) =>
        /\ result.tag = "Ok"
        /\ ResultNodes \cap PrevNodes = {}
        /\ ResultBlocks = BlocksOf(new_blocks)
        /\ ResultBlocks = {[height |-> h, hash |-> Reported(h)] : h \in ReportedHeights}
        /\ DOMAIN answered = PrevHeights
        /\ quiet => \A h \in {TipHeight - 1, TipHeight} : h >= 0 => RemoteBlock(h) \in ResultBlocks

\* C7 witness: the whole previous checkpoint was walked without agreement and the call
\* returned a checkpoint.
NoAgreementFromScratchWitness ==
    /\ ReturnedOk
    /\ agreement_cp = 0
    /\ prev_tip >= 2

\* C8: a remote call that fails ends the call with that error, and a call that ended
\* with an error returned no checkpoint and built no checkpoint node.
ErrorAborts ==
    /\ [](result.tag = "Err" => pc = "done" /\ result.cp = 0 /\ Len(arena) = prev_tip)
    /\ [][ (events' = events /\ reply'.err # "") =>
              /\ pc' = "done"
              /\ result' = RetErr(reply'.err)
              /\ arena' = arena
         ]_vars

\* C8 witness: a header lookup failed during the walk, after candidate blocks had been
\* recorded.
ErrorAbortsWitness ==
    /\ pc = "done"
    /\ result.tag = "Err"
    /\ reply.call = "block_header"
    /\ cursor # prev_tip

\* The most recent tip notification the call received: height and header hold it.
ObservedTip == [height |-> height, hash |-> header.block_hash]

\* C35: when prepare_chain_update returns a checkpoint, its head is the block of the
\* most recent tip notification the call received, whether that came from
\* block_headers_subscribe or from block_headers_pop.
HeadIsObservedTip ==
    ReturnedOk => arena[result.cp].block = ObservedTip

(***************************************************************************)
(* Properties of determine_tx_anchor                                       *)
(***************************************************************************)
Returned == a_pc = "returned"

\* C9 as stated: for a txid other than the genesis coinbase, the result is
\* Some(anchor_block, reported height) exactly when 0 < reported height <=
\* anchor_block.height, and None for every other reported height.
AnchorByHeightAlways ==
    (Returned /\ a_txid # GenesisCoinbaseTxid) =>
        a_result = IF 0 < a_raw /\ a_raw <= a_block.height
                   THEN SomeAnchor(a_block, a_raw)
                   ELSE NoneAnchor

\* C9 amended: as stated, except that a reported height below -1 makes a build with
\* debug assertions panic instead of returning None; the outcome is a function of the
\* three arguments and of the build alone.
AnchorByHeight ==
    (Returned /\ a_txid # GenesisCoinbaseTxid) =>
        a_result = IF 0 < a_raw /\ a_raw <= a_block.height
                   THEN SomeAnchor(a_block, a_raw)
                   ELSE IF a_raw < -1 /\ debug_assertions
                   THEN AnchorPanic
                   ELSE NoneAnchor

\* C9 witness: a confirmed anchor returned for a reported height that is the anchor
\* block's own height.
AnchorByHeightWitness ==
    /\ Returned
    /\ a_txid # GenesisCoinbaseTxid
    /\ a_raw = a_block.height
    /\ a_raw > 0
    /\ a_result.tag = "Some"

\* C10: for the genesis coinbase txid the result is Some(anchor_block, 0) whatever the
\* reported height is.
GenesisCoinbaseConfirmed ==
    (Returned /\ a_txid = GenesisCoinbaseTxid) => a_result = SomeAnchor(a_block, 0)

\* C10 witness: the genesis coinbase classified with a reported height of -1 against
\* the genesis block.
GenesisCoinbaseConfirmedWitness ==
    /\ Returned
    /\ a_txid = GenesisCoinbaseTxid
    /\ a_raw = -1
    /\ a_block.height = 0
    /\ a_result.tag = "Some"

(***************************************************************************)
(* populate_with_spks                                                      *)
(*                                                                         *)
(* A script is the pair <<k, i>> of its keychain and derivation index.     *)
(* An iterator of (I, Script) items is either a keychain's script          *)
(* sequence, whose item keys are the derivation indices 0, 1, ..., or the  *)
(* replay of a list of items recorded earlier.                             *)
(***************************************************************************)
\* Number of scripts of a keychain whose history is chosen freely.
MaxScripts == 3
\* Highest stop_gap.
MaxStopGap == 1
\* Highest batch_size.
MaxBatchSize == 2

\* An entry of a script history.
HistoryEntry(t, h) == [tx_hash |-> t, height |-> h]

\* The iterator over the scripts 0 .. len - 1 of keychain k; it never ends when endless.
KeychainIter(k, len, endless) ==
    [replay |-> FALSE, items |-> <<>>, k |-> k, len |-> len, endless |-> endless, next |-> 0]

\* The iterator over a list of recorded items.
ReplayIter(items) ==
    [replay |-> TRUE, items |-> items, k |-> 0, len |-> Len(items), endless |-> FALSE,
     next |-> 0]

\* The j-th item (from 0) of the sequence iterator it runs over.
IterItem(it, j) == IF it.replay THEN it.items[j + 1] ELSE [key |-> j, spk |-> <<it.k, j>>]

\* An iterator that does not move on.
IterAdvanceStuck(it, m) == it

\* The iterator after m calls of next() that returned an item.
IterAdvance(it, m) == [it EXCEPT !.next = @ + m]

\* (0..batch_size).map_while(|_| spks.next()).collect(): up to n items, taken off the iterator.
Take(it, n) ==
    LET m == IF it.endless THEN n ELSE Min({n, it.len - it.next})
    IN  [batch |-> [j \in 1..m |-> IterItem(it, it.next + j - 1)], it |-> IterAdvance(it, m)]

\* The history the server holds for a script: empty unless it has one.
HistoryOf(spk) == IF spk \in DOMAIN spk_history THEN spk_history[spk] ELSE <<>>

\* batch_script_get_history: the histories of the scripts of the batch, or an error.
BatchHistoryReplies(batch) ==
    {[err |-> "", val |-> [j \in 1..Len(batch) |-> HistoryOf(batch[j].spk)]]}
    \cup {[err |-> e, val |-> <<>>] : e \in Errors}

\* The anchor as it is stored in the graph update.
AnchorOf(a) == [anchor_block |-> a.anchor_block, confirmation_height |-> a.confirmation_height]

\* GraphAdd that makes no entry for an unconfirmed transaction.
GraphAddConfirmedOnly(graph, anchor, entry) ==
    LET a == DetermineTxAnchor(anchor, entry.height, entry.tx_hash)
        old == IF entry.tx_hash \in DOMAIN graph THEN graph[entry.tx_hash] ELSE {}
    IN  IF a.tag = "Some" THEN Insert(graph, entry.tx_hash, old \cup {AnchorOf(a)}) ELSE graph

\* graph_update.entry(tx_hash).or_default(), and the anchor inserted when there is one.
GraphAdd(graph, anchor, entry) ==
    LET a == DetermineTxAnchor(anchor, entry.height, entry.tx_hash)
        old == IF entry.tx_hash \in DOMAIN graph THEN graph[entry.tx_hash] ELSE {}
    IN  Insert(graph, entry.tx_hash, IF a.tag = "Some" THEN old \cup {AnchorOf(a)} ELSE old)

\* for tx in spk_history { ... }
RECURSIVE RecordHistory(_, _, _)
RecordHistory(graph, anchor, history) ==
    IF history = <<>> THEN graph
    ELSE RecordHistory(GraphAdd(graph, anchor, Head(history)), anchor, Tail(history))

\* The stop test passed one script late.
GapReachedLate(count, gap) == count > gap + 1

\* if unused_spk_count > stop_gap
GapReached(count, gap) == count > gap

\* A used script that leaves the count as it is.
CountAfterUsedKept(count) == count

\* unused_spk_count = 0
CountAfterUsed(count) == 0

\* The body of the loop over the batch for one script and its history.
StepItem(st, item, history, anchor, gap) ==
    IF history = <<>>
    THEN [scanned  |-> Insert(st.scanned, item.key, [spk |-> item.spk, used |-> FALSE]),
          count    |-> st.count + 1,
          graph    |-> st.graph,
          returned |-> GapReached(st.count + 1, gap)]
    ELSE [scanned  |-> Insert(st.scanned, item.key, [spk |-> item.spk, used |-> TRUE]),
          count    |-> CountAfterUsed(st.count),
          graph    |-> RecordHistory(st.graph, anchor, history),
          returned |-> FALSE]

\* for ((spk_index, spk), spk_history) in spks.into_iter().zip(spk_histories), from the
\* j-th script of the batch on; the return inside the loop leaves the rest of the batch.
RECURSIVE ProcessBatch(_, _, _, _, _, _)
ProcessBatch(st, batch, histories, anchor, gap, j) ==
    IF j > Len(batch) \/ st.returned THEN st
    ELSE ProcessBatch(StepItem(st, batch[j], histories[j], anchor, gap),
                      batch, histories, anchor, gap, j + 1)

\* The histories a script can have.
SpkHistories ==
    {<<>>,
     <<HistoryEntry("tx1", 1)>>,
     <<HistoryEntry("tx1", 1), HistoryEntry("tx2", 0)>>,
     <<HistoryEntry("tx2", 2), HistoryEntry(GenesisCoinbaseTxid, 0)>>}

\* What a turn of the loop of populate_with_spks leaves alone.
SpksFrame ==
    UNCHANGED <<spk_history, s_chain, s_events, stop_gap, batch_size, txids, s_pc,
                request_spks, scanned_spks, s_anchor_block, s_result, attempts, s_fault,
                replayed,
                chainVars, anchorVars, moreVars>>

\* One turn of the loop of populate_with_spks: a batch is taken off the iterator, its
\* histories are fetched and its scripts are gone through; an empty batch ends the call.
SpksLoop ==
    /\ p_pc = "loop"
    /\ LET t == Take(spks, batch_size)
       IN  IF Len(t.batch) = 0
           THEN /\ p_pc' = "returned"
                /\ UNCHANGED <<spks, unused_spk_count, p_scanned_spks, update, queried>>
           ELSE \E r \in {x \in BatchHistoryReplies(t.batch) : x.err = ""} :
                LET st == ProcessBatch([scanned  |-> p_scanned_spks,
                                        count    |-> unused_spk_count,
                                        graph    |-> update.graph_update,
                                        returned |-> FALSE],
                                       t.batch, r.val, s_anchor_block, stop_gap, 1)
                IN  /\ spks' = t.it
                    /\ queried' = queried \cup {t.batch[j].key : j \in 1..Len(t.batch)}
                    /\ p_scanned_spks' = st.scanned
                    /\ unused_spk_count' = st.count
                    /\ update' = [update EXCEPT !.graph_update = st.graph]
                    /\ p_pc' = IF st.returned THEN "returned" ELSE "loop"
    /\ SpksFrame

\* A turn of the loop whose history query fails: `?` returns the error.
SpksLoopErr ==
    /\ p_pc = "loop"
    /\ LET t == Take(spks, batch_size)
       IN  /\ Len(t.batch) > 0
           /\ \E r \in {x \in BatchHistoryReplies(t.batch) : x.err # ""} :
                /\ spks' = t.it
                /\ queried' = queried \cup {t.batch[j].key : j \in 1..Len(t.batch)}
                /\ p_pc' = "error"
                /\ UNCHANGED <<unused_spk_count, p_scanned_spks, update>>
    /\ SpksFrame

\* The histories of a script when only their being empty or not matters.
UsedOrUnused == {<<>>, <<HistoryEntry("tx1", 1)>>}

\* populate_with_spks is called on one keychain's scripts with a fresh update; the
\* server holds one of the given histories for each of the first scripts.
InitSpksOver(histories) ==
    /\ \E n \in 0..MaxScripts :
        /\ spk_history \in [{<<1, i>> : i \in 0..(n - 1)} -> histories]
        /\ \E endless \in BOOLEAN : spks = KeychainIter(1, n, endless)
    /\ stop_gap \in 0..MaxStopGap
    /\ batch_size \in 1..MaxBatchSize
    /\ s_anchor_block \in {[height |-> h, hash |-> LocalHash(h)] : h \in 1..2}
    /\ update = [chain_update |-> s_anchor_block, graph_update |-> EmptyMap,
                 keychain_update |-> EmptyMap]
    /\ p_pc = "loop"
    /\ unused_spk_count = 0
    /\ p_scanned_spks = EmptyMap
    /\ queried = {}
    /\ s_chain = <<0>>
    /\ s_events = 0
    /\ txids = <<>>
    /\ s_pc = "idle"
    /\ request_spks = EmptyMap
    /\ scanned_spks = EmptyMap
    /\ s_result = [tag |-> "None", err |-> ""]
    /\ attempts = 0
    /\ s_fault = NoFault
    /\ replayed = NoReplay
    /\ InitChainIdle
    /\ InitAnchorIdle
    /\ InitMoreIdle

InitSpks == InitSpksOver(SpkHistories)

InitSpksUsedOrUnused == InitSpksOver(UsedOrUnused)

NextSpks == SpksLoop \/ SpksLoopErr

SpecSpks == InitSpks /\ [][NextSpks]_vars

\* The loop of populate_with_spks is not held up for ever: a history query that is
\* answered is followed by the rest of the turn.
FairSpks == InitSpksUsedOrUnused /\ [][NextSpks]_vars /\ WF_vars(SpksLoop)

(***************************************************************************)
(* Properties of populate_with_spks                                        *)
(***************************************************************************)
SpksReturned == p_pc = "returned"

\* Whether the server holds a history for script i of the keychain that is scanned.
UsedOnServer(i) == HistoryOf(<<spks.k, i>>) # <<>>

\* The number of consecutive unused scripts that end at script i, i included.
RECURSIVE UnusedRunEndingAt(_)
UnusedRunEndingAt(i) ==
    IF i < 0 \/ UsedOnServer(i) THEN 0 ELSE 1 + UnusedRunEndingAt(i - 1)

\* The indices the call has recorded.
Recorded == DOMAIN p_scanned_spks

\* The highest index the call has recorded; -1 when there is none.
TopRecorded == IF Recorded = {} THEN -1 ELSE Max(Recorded)

\* The scripts of a finite keychain.
AllScripts == 0..(spks.len - 1)

\* The call returned because the gap limit was passed.
StoppedByGap == SpksReturned /\ unused_spk_count > stop_gap

\* C12: within one run of the gap-limited scanner the count of consecutive unused
\* scripts is the length of the unused run that ends at the script recorded last, so
\* every used script resets it to zero; the run goes on while the count is at most
\* stop_gap and ends on the very script that takes it above stop_gap, or else at the end
\* of the sequence; a finite sequence in which no unused run is longer than stop_gap is
\* scanned to its end however many unused scripts it holds in total.
GapCounterResets ==
    /\ Recorded = 0..TopRecorded
    /\ \A i \in Recorded : p_scanned_spks[i].used = UsedOnServer(i)
    /\ unused_spk_count = UnusedRunEndingAt(TopRecorded)
    /\ p_pc = "loop" => unused_spk_count <= stop_gap
    /\ SpksReturned =>
        \/ unused_spk_count = stop_gap + 1
        \/ ~spks.endless /\ Recorded = AllScripts /\ unused_spk_count <= stop_gap
    /\ (SpksReturned /\ ~spks.endless /\ \A i \in AllScripts : UnusedRunEndingAt(i) <= stop_gap)
        => Recorded = AllScripts

\* A sequence with more unused scripts in total than stop_gap, none of its unused runs
\* longer than stop_gap, and a used script after an unused one, was scanned to its end.
GapCounterResetsWitness ==
    /\ SpksReturned
    /\ ~spks.endless
    /\ Cardinality({i \in AllScripts : ~UsedOnServer(i)}) > stop_gap
    /\ \A i \in AllScripts : UnusedRunEndingAt(i) <= stop_gap
    /\ \E i \in AllScripts : i > 0 /\ UsedOnServer(i) /\ ~UsedOnServer(i - 1)
    /\ Recorded = AllScripts

\* C13 as it is stated: once the scan stopped on the (stop_gap + 1)-th consecutive unused
\* script, no index beyond that script has been sent in a history query, whatever
\* batch_size is.
NoQueryBeyondGap ==
    StoppedByGap => \A i \in queried : i <= TopRecorded

\* C13: the scan stops on the first script that is the (stop_gap + 1)-th of a run of
\* unused scripts and records nothing beyond it; the indices beyond it that were sent in
\* a history query are those of the rest of its batch, fewer than batch_size, and none
\* when batch_size is 1.
NoBatchBeyondGap ==
    StoppedByGap =>
        /\ UnusedRunEndingAt(TopRecorded) = stop_gap + 1
        /\ \A i \in 0..(TopRecorded - 1) : UnusedRunEndingAt(i) <= stop_gap
        /\ Recorded \subseteq queried
        /\ \A i \in queried \ Recorded :
            /\ i > TopRecorded
            /\ i \div batch_size = TopRecorded \div batch_size
        /\ batch_size = 1 => queried = Recorded

\* The scan stopped by the gap limit after a query that went beyond the script it
\* stopped on.
NoBatchBeyondGapWitness ==
    /\ StoppedByGap
    /\ stop_gap > 0
    /\ \E i \in queried : i > TopRecorded

\* C14: the records of a scan never hold a run of more than stop_gap consecutive unused
\* scripts.
StopGapIsMaxUnusedRun ==
    \A i \in Recorded : UnusedRunEndingAt(i) <= stop_gap

\* C17: the scan of a keychain whose scripts are all unused from some index on, unbounded
\* sequences included, comes to an end.
ScanOfKeychainEnds == <>(p_pc # "loop")

\* The scan of an unbounded script sequence has returned by the gap limit, past a used
\* script.
ScanOfKeychainEndsWitness ==
    /\ StoppedByGap
    /\ spks.endless
    /\ \E i \in Recorded : p_scanned_spks[i].used

\* The history entries of the scripts recorded as used.
FoundEntries ==
    UNION {{HistoryOf(<<spks.k, i>>)[j] : j \in 1..Len(HistoryOf(<<spks.k, i>>))} :
           i \in {x \in Recorded : p_scanned_spks[x].used}}

\* What the classifier makes of a history entry.
Classified(e) == DetermineTxAnchor(s_anchor_block, e.height, e.tx_hash)

\* C19: the keys of the graph map are the txids of the history entries of the scripts
\* found with a history, and the anchors of a txid are those the classifier returns for
\* its entries: an entry the classifier confirms adds its anchor, an entry it does not
\* confirm leaves the txid in the map and adds none.
HistoryRecorded ==
    /\ DOMAIN update.graph_update = {e.tx_hash : e \in FoundEntries}
    /\ \A t \in DOMAIN update.graph_update :
        update.graph_update[t] =
            {AnchorOf(Classified(e)) :
                e \in {x \in FoundEntries : x.tx_hash = t /\ Classified(x).tag = "Some"}}

\* The call returned with a txid that has an anchor and a txid that is present with none.
HistoryRecordedWitness ==
    /\ SpksReturned
    /\ \E t \in DOMAIN update.graph_update : update.graph_update[t] # {}
    /\ \E t \in DOMAIN update.graph_update : update.graph_update[t] = {}

(***************************************************************************)
(* scan                                                                    *)
(*                                                                         *)
(* The keychains are 1 and 2.  The histories the server holds are fixed    *)
(* during a call; its chain is not.  prepare_chain_update is taken as a    *)
(* whole here (SpecChain has its steps): it returns a checkpoint whose     *)
(* head is the server's tip, or an error.  scan is called with no          *)
(* outpoints, so populate_with_outpoints returns without a remote call.    *)
(***************************************************************************)
\* Highest block height of the server's chain during scan.
MaxScanHeight == 1

\* (K, u32) keys in the order of the BTreeMap.
KeyLess(a, b) == a[1] < b[1] \/ (a[1] = b[1] /\ a[2] < b[2])

\* The keys of the set S in ascending order.
RECURSIVE SortedKeys(_)
SortedKeys(S) ==
    IF S = {} THEN <<>>
    ELSE LET m == CHOOSE x \in S : \A y \in S : x = y \/ KeyLess(x, y)
         IN  <<m>> \o SortedKeys(S \ {m})

\* scanned_spks.iter().map(|(i, (spk, _))| (i.clone(), spk.clone()))
ReplayItems(scanned) ==
    [j \in 1..Cardinality(DOMAIN scanned) |->
        [key |-> SortedKeys(DOMAIN scanned)[j],
         spk |-> scanned[SortedKeys(DOMAIN scanned)[j]].spk]]

\* BTreeMap::append and BTreeMap::extend: the entries of other go in, over equal keys.
MapMerge(m, other) ==
    [x \in DOMAIN m \cup DOMAIN other |-> IF x \in DOMAIN other THEN other[x] ELSE m[x]]

\* .into_iter().map(|(spk_i, spk)| ((keychain.clone(), spk_i), spk))
Keyed(k, m) == [x \in {<<k, i>> : i \in DOMAIN m} |-> m[x[2]]]

\* A call of populate_with_spks that the server answers throughout, from the state st of
\* its loop on: the turns of the loop until one returns.
RECURSIVE PopulateWithSpks(_, _, _, _, _)
PopulateWithSpks(it, st, anchor, gap, batch) ==
    LET t == Take(it, batch)
        histories == [j \in 1..Len(t.batch) |-> HistoryOf(t.batch[j].spk)]
        st2 == ProcessBatch(st, t.batch, histories, anchor, gap, 1)
    IN  IF Len(t.batch) = 0 THEN [it |-> it, scanned |-> st.scanned, graph |-> st.graph]
        ELSE IF st2.returned THEN [it |-> t.it, scanned |-> st2.scanned, graph |-> st2.graph]
        ELSE PopulateWithSpks(t.it, st2, anchor, gap, batch)

\* The state of the loop of populate_with_spks at its entry.
SpksEntry(graph) == [scanned |-> EmptyMap, count |-> 0, graph |-> graph, returned |-> FALSE]

\* for (keychain, keychain_spks) in &mut request_spks, over the keychains ks.
RECURSIVE ScanKeychains(_, _, _, _, _, _, _)
ScanKeychains(req, scanned, graph, ks, anchor, gap, batch) ==
    IF ks = <<>> THEN [req |-> req, scanned |-> scanned, graph |-> graph]
    ELSE LET k == Head(ks)
             r == PopulateWithSpks(req[k], SpksEntry(graph), anchor, gap, batch)
         IN  ScanKeychains([req EXCEPT ![k] = r.it], MapMerge(scanned, Keyed(k, r.scanned)),
                           r.graph, Tail(ks), anchor, gap, batch)

\* The replay of the scripts scanned by earlier attempts; again: the keys that the
\* replay went through, which are those populate_with_spks returns a record of.
Replay(scanned, graph, anchor, gap, batch) ==
    IF DOMAIN scanned = {} THEN [scanned |-> scanned, graph |-> graph, again |-> {}]
    ELSE LET r == PopulateWithSpks(ReplayIter(ReplayItems(scanned)), SpksEntry(graph),
                                   anchor, gap, batch)
         IN  [scanned |-> MapMerge(scanned, r.scanned), graph |-> r.graph,
              again |-> DOMAIN r.scanned]

\* if !request_spks.is_empty() { ... }: the scripts of one attempt.
AttemptSpks(req, scanned, graph, anchor, gap, batch) ==
    IF DOMAIN req = {}
    THEN [req |-> req, scanned |-> scanned, graph |-> graph, had |-> DOMAIN scanned,
          again |-> {}]
    ELSE LET r == Replay(scanned, graph, anchor, gap, batch)
             q == ScanKeychains(req, r.scanned, r.graph, Ascending(DOMAIN req), anchor, gap,
                                batch)
         IN  [req |-> q.req, scanned |-> q.scanned, graph |-> q.graph,
              had |-> DOMAIN scanned, again |-> r.again]

\* Whether the scripts of an attempt lead to a history query.
SpksQueried(req, scanned) ==
    /\ DOMAIN req # {}
    /\ \/ DOMAIN scanned # {}
       \/ \E k \in DOMAIN req : req[k].endless \/ req[k].next < req[k].len

\* The scripts whose history on the server holds txid.
SpksOfTx(txid) ==
    {spk \in DOMAIN spk_history :
        \E j \in 1..Len(spk_history[spk]) : spk_history[spk][j].tx_hash = txid}

\* tx.output.get(0): the script of the first output of a transaction the server knows.
FirstOutputSpk(txid) == SortedKeys(SpksOfTx(txid))[1]

\* .into_iter().find(|r| r.tx_hash == txid)
FindEntry(history, txid) ==
    history[Min({j \in 1..Len(history) : history[j].tx_hash = txid})]

\* populate_with_txids, answered throughout: a transaction the server does not know is
\* passed over (Error::Protocol), a known one is classified by its entry in the history
\* of its first output.
RECURSIVE PopulateWithTxids(_, _, _)
PopulateWithTxids(graph, anchor, ts) ==
    IF ts = <<>> THEN graph
    ELSE IF SpksOfTx(Head(ts)) = {} THEN PopulateWithTxids(graph, anchor, Tail(ts))
    ELSE PopulateWithTxids(
            GraphAdd(graph, anchor, FindEntry(HistoryOf(FirstOutputSpk(Head(ts))), Head(ts))),
            anchor, Tail(ts))

(***************************************************************************)
(* populate_with_txids and populate_with_outpoints, one item of the list   *)
(* per step                                                                *)
(***************************************************************************)

\* Longest script history the server holds.
MaxHistory == 3

OutPoint(t, v) == [txid |-> t, vout |-> v]

\* transaction_get: "Ok" with the transaction when the server knows it, or an error.
TransactionGetReplies(txid) == (IF txid \in DOMAIN txs THEN {"Ok"} ELSE {}) \cup Errors

\* script_get_history: "Ok" with the history, or an error.
ScriptGetHistoryReplies == {"Ok"} \cup Errors

\* The replies of the server for one item: "" for a call that was not made.
LogEntry(fetch, history, spender) == [fetch |-> fetch, history |-> history, spender |-> spender]

\* The match on the reply of transaction_get that passes no error over.
SwallowedNever(e) == FALSE

\* Err(electrum_client::Error::Protocol(_)) => continue
Swallowed(e) == e = "Protocol"

\* What an item of a lookup leaves alone.
LookupFrame ==
    UNCHANGED <<spk_history, s_chain, s_events, stop_gap, batch_size, txids, p_pc, spks,
                unused_spk_count, p_scanned_spks, s_pc, request_spks, scanned_spks,
                s_anchor_block, s_result, queried, attempts, s_fault, replayed, txs, outpoints,
                chainVars, anchorVars, finalVars, persistVars>>

\* The for loop goes on to the next item.
LookupNext(graph, cache, entry) ==
    /\ update' = [update EXCEPT !.graph_update = graph]
    /\ full_txs' = cache
    /\ l_i' = l_i + 1
    /\ l_log' = Append(l_log, entry)
    /\ UNCHANGED <<l_pc, l_result>>

\* `?`, or return Err(other_err): the call returns the error.
LookupReturnErr(e, graph, cache, entry) ==
    /\ update' = [update EXCEPT !.graph_update = graph]
    /\ full_txs' = cache
    /\ l_log' = Append(l_log, entry)
    /\ l_result' = [tag |-> "Err", err |-> e]
    /\ l_pc' = "done"
    /\ UNCHANGED l_i

\* Whether a history holds an entry of txid.
HasEntry(history, txid) == \E j \in 1..Len(history) : history[j].tx_hash = txid

\* One txid of populate_with_txids.
TxidStep ==
    /\ l_pc = "txids"
    /\ l_i < Len(txids)
    /\ LET txid == txids[l_i + 1]
           graph == update.graph_update
       IN  \E fetch \in TransactionGetReplies(txid) :
            IF fetch # "Ok"
            THEN IF Swallowed(fetch)
                 THEN LookupNext(graph, full_txs, LogEntry(fetch, "", ""))
                 ELSE LookupReturnErr(fetch, graph, full_txs, LogEntry(fetch, "", ""))
            ELSE \E hist \in ScriptGetHistoryReplies :
                 LET history == HistoryOf(txs[txid].output[1])
                 IN  IF hist # "Ok"
                     THEN LookupReturnErr(hist, graph, full_txs, LogEntry(fetch, hist, ""))
                     ELSE IF HasEntry(history, txid)
                     THEN LookupNext(GraphAdd(graph, s_anchor_block, FindEntry(history, txid)),
                                     full_txs, LogEntry(fetch, hist, ""))
                     ELSE LookupNext(graph, full_txs, LogEntry(fetch, hist, ""))
    /\ LookupFrame

\* The test for a spender that looks at the txid of the spent outpoint only.
SpendsSameTx(res_tx, outpoint) == \E o \in res_tx.input : o.txid = outpoint.txid

\* res_tx.input.iter().any(|txin| txin.previous_output == outpoint)
SpendsOutpoint(res_tx, outpoint) == outpoint \in res_tx.input

\* The state of the loop over the history of an outpoint's script.
HistoryEntryState(graph, cache) ==
    [graph |-> graph, full_txs |-> cache, has_residing |-> FALSE, has_spending |-> FALSE,
     err |-> ""]

\* for res in client.script_get_history(&txout.script_pubkey)? { ... } from entry j on;
\* the transaction_get of entry fail.at, if one is made, fails with fail.err.
RECURSIVE OutpointHistory(_, _, _, _, _, _)
OutpointHistory(st, outpoint, history, anchor, j, fail) ==
    IF j > Len(history) \/ (st.has_residing /\ st.has_spending) THEN st
    ELSE LET res == history[j]
             added == GraphAdd(st.graph, anchor, res)
         IN  IF res.tx_hash = outpoint.txid
             THEN IF st.has_residing
                  THEN OutpointHistory(st, outpoint, history, anchor, j + 1, fail)
                  ELSE OutpointHistory([st EXCEPT !.has_residing = TRUE,
                                                  !.full_txs = @ \cup {res.tx_hash},
                                                  !.graph = added],
                                       outpoint, history, anchor, j + 1, fail)
             ELSE IF st.has_spending
                  THEN OutpointHistory(st, outpoint, history, anchor, j + 1, fail)
             ELSE IF res.tx_hash \notin st.full_txs /\ fail.at = j
                  THEN [st EXCEPT !.err = fail.err]
             ELSE IF SpendsOutpoint(txs[res.tx_hash], outpoint)
                  THEN OutpointHistory([st EXCEPT !.has_spending = TRUE,
                                                  !.full_txs = @ \cup {res.tx_hash},
                                                  !.graph = added],
                                       outpoint, history, anchor, j + 1, fail)
                  ELSE OutpointHistory([st EXCEPT !.full_txs = @ \cup {res.tx_hash}],
                                       outpoint, history, anchor, j + 1, fail)

\* No transaction_get fails.
NoFail == [at |-> 0, err |-> ""]

\* The transaction_get calls of the loop over a history that can fail.
Fails(history) == {NoFail} \cup [at : 1..Len(history), err : Errors]

\* populate_with_outpoints, answered throughout, over the outpoints ops of transactions
\* the server knows.
RECURSIVE PopulateWithOutpoints(_, _, _, _)
PopulateWithOutpoints(graph, anchor, ops, cache) ==
    IF ops = <<>> THEN graph
    ELSE IF Head(ops).vout >= Len(txs[Head(ops).txid].output)
    THEN PopulateWithOutpoints(graph, anchor, Tail(ops), cache)
    ELSE LET r == OutpointHistory(HistoryEntryState(graph, cache), Head(ops),
                                  HistoryOf(txs[Head(ops).txid].output[Head(ops).vout + 1]),
                                  anchor, 1, NoFail)
         IN  PopulateWithOutpoints(r.graph, anchor, Tail(ops), r.full_txs)

\* One outpoint of populate_with_outpoints.
OutpointStep ==
    /\ l_pc = "outpoints"
    /\ l_i < Len(outpoints)
    /\ LET outpoint == outpoints[l_i + 1]
           graph == update.graph_update
       IN  \E fetch \in TransactionGetReplies(outpoint.txid) :
            IF fetch # "Ok"
            THEN LookupReturnErr(fetch, graph, full_txs, LogEntry(fetch, "", ""))
            ELSE IF outpoint.vout >= Len(txs[outpoint.txid].output)
            THEN LookupNext(graph, full_txs, LogEntry(fetch, "", ""))
            ELSE \E hist \in ScriptGetHistoryReplies :
                 LET history == HistoryOf(txs[outpoint.txid].output[outpoint.vout + 1])
                 IN  IF hist # "Ok"
                     THEN LookupReturnErr(hist, graph, full_txs, LogEntry(fetch, hist, ""))
                     ELSE \E fail \in Fails(history) :
                          LET r == OutpointHistory(HistoryEntryState(graph, full_txs),
                                                   outpoint, history, s_anchor_block, 1, fail)
                          IN  IF r.err # ""
                              THEN LookupReturnErr(r.err, r.graph, r.full_txs,
                                                   LogEntry(fetch, hist, r.err))
                              ELSE LookupNext(r.graph, r.full_txs,
                                              LogEntry(fetch, hist, "Ok"))
    /\ LookupFrame

\* The list is gone through: Ok(()) and Ok(full_txs).
LookupReturn ==
    /\ \/ l_pc = "txids" /\ l_i = Len(txids)
       \/ l_pc = "outpoints" /\ l_i = Len(outpoints)
    /\ l_pc' = "done"
    /\ l_result' = [tag |-> "Ok", err |-> ""]
    /\ UNCHANGED <<update, full_txs, l_i, l_log>>
    /\ LookupFrame

\* The sequences of at most n elements of S.
RECURSIVE SeqsUpTo(_, _)
SeqsUpTo(S, n) ==
    IF n = 0 THEN {<<>>}
    ELSE SeqsUpTo(S, n - 1) \cup
         {Append(q, x) : q \in {y \in SeqsUpTo(S, n - 1) : Len(y) = n - 1}, x \in S}

\* What the transaction "tx2" of the server may spend; "tx3" spends the first or nothing.
Spends == {{}, {OutPoint("tx1", 0)}, {OutPoint("tx1", 1)}}

\* The entries of the history of the first output script of "tx1".
LookupEntries ==
    {HistoryEntry("tx1", 1), HistoryEntry("tx1", 2), HistoryEntry("tx2", 2),
     HistoryEntry("tx3", 0)}

\* The lists of txids populate_with_txids is called with; the server knows no "tx4".
TxidLists == {<<>>, <<"tx1">>, <<"tx4", "tx2">>, <<"tx3", "tx1">>}

\* The lists of outpoints populate_with_outpoints is called with; "tx1" has two outputs.
OutpointLists ==
    {<<>>, <<OutPoint("tx1", 0)>>, <<OutPoint("tx1", 2), OutPoint("tx1", 1)>>,
     <<OutPoint("tx4", 0)>>, <<OutPoint("tx1", 0), OutPoint("tx1", 1)>>}

\* One of the two lookups is called with a fresh update.  The server knows "tx1", which
\* pays to the scripts <<1, 0>> and <<1, 1>>, and "tx2" and "tx3", which pay to one of
\* them; the history of <<1, 0>> is any sequence of entries, repeated ones included.
InitLookup ==
    /\ \E in2 \in Spends, in3 \in {{}, {OutPoint("tx1", 0)}} :
        txs = [t \in {"tx1", "tx2", "tx3"} |->
                 IF t = "tx1" THEN [output |-> <<<<1, 0>>, <<1, 1>>>>, input |-> {}]
                 ELSE IF t = "tx2" THEN [output |-> <<<<1, 1>>>>, input |-> in2]
                 ELSE [output |-> <<<<1, 0>>>>, input |-> in3]]
    /\ \E h0 \in SeqsUpTo(LookupEntries, MaxHistory) :
        \E h1 \in {<<>>, <<HistoryEntry("tx1", 1), HistoryEntry("tx2", 2)>>} :
            spk_history = [spk \in {<<1, 0>>, <<1, 1>>} |-> IF spk = <<1, 0>> THEN h0 ELSE h1]
    /\ \/ /\ l_pc = "txids"
          /\ txids \in TxidLists
          /\ outpoints = <<>>
       \/ /\ l_pc = "outpoints"
          /\ txids = <<>>
          /\ outpoints \in OutpointLists
    /\ s_anchor_block \in {[height |-> h, hash |-> LocalHash(h)] : h \in 1..2}
    /\ update = [chain_update |-> s_anchor_block, graph_update |-> EmptyMap,
                 keychain_update |-> EmptyMap]
    /\ l_i = 0
    /\ full_txs = {}
    /\ l_result = [tag |-> "None", err |-> ""]
    /\ l_log = <<>>
    /\ s_chain = <<0>>
    /\ s_events = 0
    /\ stop_gap = 0
    /\ batch_size = 1
    /\ p_pc = "idle"
    /\ spks = <<>>
    /\ unused_spk_count = 0
    /\ p_scanned_spks = EmptyMap
    /\ s_pc = "idle"
    /\ request_spks = EmptyMap
    /\ scanned_spks = EmptyMap
    /\ s_result = [tag |-> "None", err |-> ""]
    /\ queried = {}
    /\ attempts = 0
    /\ s_fault = NoFault
    /\ replayed = NoReplay
    /\ InitChainIdle
    /\ InitAnchorIdle
    /\ InitFinalIdle
    /\ InitPersistIdle

NextLookup == TxidStep \/ OutpointStep \/ LookupReturn

SpecLookup == InitLookup /\ [][NextLookup]_vars

\* The highest index of keychain k, from i down, that is recorded as active; -1: none.
RECURSIVE LastActive(_, _, _)
LastActive(scanned, k, i) ==
    IF i < 0 THEN -1
    ELSE IF <<k, i>> \in DOMAIN scanned /\ scanned[<<k, i>>].used THEN i
    ELSE LastActive(scanned, k, i - 1)

\* The highest index recorded for keychain k; -1: none.
TopIndex(scanned, k) == Max({-1} \cup {x[2] : x \in {y \in DOMAIN scanned : y[1] = k}})

\* The indices of keychain k that are recorded as active.
ActiveIndices(scanned, k) ==
    {x[2] : x \in {y \in DOMAIN scanned : y[1] = k /\ scanned[y].used}}

\* The search for an active script that goes up from the lowest index.
FindActiveLowest(scanned, k) ==
    IF ActiveIndices(scanned, k) = {} THEN -1 ELSE Min(ActiveIndices(scanned, k))

\* scanned_spks.range((k, u32::MIN)..=(k, u32::MAX)).rev().find(|(_, (_, active))| *active)
FindActive(scanned, k) == LastActive(scanned, k, TopIndex(scanned, k))

\* request_spks.into_keys().filter_map(..).collect()
KeychainUpdate(keys, scanned) ==
    [k \in {x \in keys : FindActive(scanned, x) >= 0} |-> FindActive(scanned, k)]

\* The staleness test that never finds the anchor stale.
AnchorStaleNever(anchor, server_blockhash) == FALSE

\* if anchor_block.hash != server_blockhash
AnchorStale(anchor, server_blockhash) == anchor.hash # server_blockhash

\* What a step of scan leaves alone.
ScanFrame ==
    UNCHANGED <<spk_history, stop_gap, batch_size, txids, p_pc, spks, unused_spk_count,
                p_scanned_spks, queried, chainVars, anchorVars, moreVars>>

\* The tip of chain c as a BlockId.
TipBlock(c) == [height |-> Len(c) - 1, hash |-> HashAt(c, Len(c) - 1)]

\* ElectrumUpdate::new(chain_update)
NewUpdate(head) ==
    [chain_update |-> head, graph_update |-> EmptyMap, keychain_update |-> EmptyMap]

\* scan that starts the loop over when a remote call fails.
ScanRetryOnErr(e) ==
    /\ s_fault' = [step |-> s_pc, err |-> e]
    /\ UNCHANGED replayed
    /\ s_pc' = "reconcile"
    /\ UNCHANGED <<request_spks, scanned_spks, s_anchor_block, update, s_result, attempts>>

\* scan returns an error: `?` on a remote call.  The locals of scan, the update of the
\* attempt among them, are dropped.
ScanReturnErr(e) ==
    /\ s_result' = [tag |-> "Err", err |-> e]
    /\ s_pc' = "done"
    /\ s_fault' = [step |-> s_pc, err |-> e]
    /\ replayed' = NoReplay
    /\ request_spks' = EmptyMap
    /\ scanned_spks' = EmptyMap
    /\ s_anchor_block' = [height |-> 0, hash |-> LocalHash(0)]
    /\ update' = NewUpdate([height |-> 0, hash |-> LocalHash(0)])
    /\ UNCHANGED attempts

\* The top of a loop that keeps the graph of the attempt before around the new head.
ScanReconcileKeepsGraph ==
    /\ s_pc = "reconcile"
    /\ \/ /\ update' = [update EXCEPT !.chain_update = TipBlock(s_chain)]
          /\ s_anchor_block' = TipBlock(s_chain)
          /\ attempts' = attempts + 1
          /\ s_pc' = "spks"
          /\ UNCHANGED <<request_spks, scanned_spks, s_result, s_fault, replayed>>
       \/ \E e \in Errors : ScanReturnErr(e)
    /\ UNCHANGED <<s_chain, s_events>>
    /\ ScanFrame

\* The top of the loop of scan: prepare_chain_update, and a new update around its result.
ScanReconcile ==
    /\ s_pc = "reconcile"
    /\ \/ /\ update' = NewUpdate(TipBlock(s_chain))
          /\ s_anchor_block' = TipBlock(s_chain)
          /\ attempts' = attempts + 1
          /\ s_pc' = "spks"
          /\ UNCHANGED <<request_spks, scanned_spks, s_result, s_fault, replayed>>
       \/ \E e \in Errors : ScanReturnErr(e)
    /\ UNCHANGED <<s_chain, s_events>>
    /\ ScanFrame

\* The scripts of the attempt: the replay of what earlier attempts scanned, then each
\* keychain from where its iterator stands.
ScanSpks ==
    /\ s_pc = "spks"
    /\ \/ LET r == AttemptSpks(request_spks, scanned_spks, update.graph_update,
                               s_anchor_block, stop_gap, batch_size)
          IN  /\ request_spks' = r.req
              /\ scanned_spks' = r.scanned
              /\ update' = [update EXCEPT !.graph_update = r.graph]
              /\ s_pc' = "lookups"
              /\ UNCHANGED <<s_anchor_block, s_result, attempts, s_fault>>
              /\ replayed' = [had |-> r.had, again |-> r.again]
       \/ /\ SpksQueried(request_spks, scanned_spks)
          /\ \E e \in Errors : ScanReturnErr(e)
    /\ UNCHANGED <<s_chain, s_events>>
    /\ ScanFrame

\* populate_with_txids and populate_with_outpoints.  A transport error can meet any
\* call; a protocol error is returned unless it meets a transaction_get of
\* populate_with_txids, and it is all that transaction_get of populate_with_outpoints
\* returns for a transaction the server does not know.
ScanLookups ==
    /\ s_pc = "lookups"
    /\ \/ /\ \A j \in 1..Len(outpoints) : outpoints[j].txid \in DOMAIN txs
          /\ update' = [update EXCEPT !.graph_update =
                            PopulateWithOutpoints(
                                PopulateWithTxids(update.graph_update, s_anchor_block, txids),
                                s_anchor_block, outpoints, {})]
          /\ s_pc' = "check"
          /\ UNCHANGED <<request_spks, scanned_spks, s_anchor_block, s_result, attempts,
                         s_fault, replayed>>
       \/ \E e \in Errors :
            /\ txids # <<>> \/ outpoints # <<>>
            /\ \/ e = "Transport"
               \/ outpoints # <<>>
               \/ \E j \in 1..Len(txids) : txids[j] \in DOMAIN txs
            /\ ScanReturnErr(e)
    /\ UNCHANGED <<s_chain, s_events>>
    /\ ScanFrame

\* blockchain.block.header during scan: the hash at height h, a protocol error above the
\* server's tip, or a transport error.
ScanHeaderReplies(h) ==
    (IF h < Len(s_chain)
        THEN {[err |-> "", val |-> HashAt(s_chain, h)]}
        ELSE {[err |-> "Protocol", val |-> <<>>]})
    \cup {[err |-> "Transport", val |-> <<>>]}

\* The check for reorgs at the end of the attempt: the attempt is given up and the loop
\* starts over, or the keychain update is filled in and the update is returned.
ScanCheck ==
    /\ s_pc = "check"
    /\ \E r \in ScanHeaderReplies(s_anchor_block.height) :
        IF r.err # "" THEN ScanReturnErr(r.err)
        ELSE IF AnchorStale(s_anchor_block, r.val)
        THEN /\ s_pc' = "reconcile"
             /\ UNCHANGED <<request_spks, scanned_spks, s_anchor_block, update, s_result,
                            attempts, s_fault, replayed>>
        ELSE /\ update' = [update EXCEPT !.keychain_update =
                                KeychainUpdate(DOMAIN request_spks, scanned_spks)]
             /\ s_result' = [tag |-> "Ok", err |-> ""]
             /\ s_pc' = "done"
             /\ UNCHANGED <<request_spks, scanned_spks, s_anchor_block, attempts, s_fault,
                            replayed>>
    /\ UNCHANGED <<s_chain, s_events>>
    /\ ScanFrame

\* The server's chain changes to c while an attempt is under way.  The steps of an
\* attempt between prepare_chain_update and the check for reorgs do not read the chain, so
\* it is enough that the chain changes just before that check.
ScanChainEvent(c) ==
    /\ s_pc = "check"
    /\ s_events < MaxEvents
    /\ s_chain' = c
    /\ s_events' = s_events + 1
    /\ UNCHANGED <<s_pc, request_spks, scanned_spks, s_anchor_block, update, s_result,
                   attempts, s_fault, replayed>>
    /\ ScanFrame

\* A block is mined on the server's tip.
ScanNewBlock ==
    /\ Len(s_chain) <= MaxScanHeight
    /\ \E c \in Mined(s_chain, 1) : ScanChainEvent(c)

\* The server switches to a chain that forks off below height f.
ScanReorg ==
    \E f \in 0..(Len(s_chain) - 1) :
        \E n \in 0..(MaxScanHeight - f) :
            \E c \in Mined(SubSeq(s_chain, 1, f) \o <<1 - s_chain[f + 1]>>, n) :
                ScanChainEvent(c)

\* The transaction of the scripts of keychain k.
TxOf(k) == IF k = 1 THEN "tx1" ELSE "tx2"

\* The history of a used script of keychain k: the transaction of keychain 1 is
\* confirmed at height 1, that of keychain 2 is unconfirmed.
ScanHistory(k) == <<HistoryEntry(TxOf(k), IF k = 1 THEN 1 ELSE 0)>>

\* The transactions of the server during scan: each pays to the scripts whose history
\* holds it.
ScanLedger ==
    [t \in {x \in {TxOf(1), TxOf(2)} : SpksOfTx(x) # {}} |->
        [output |-> SortedKeys(SpksOfTx(t)), input |-> {}]]

\* scan is called: keychain 1 with up to MaxScripts scripts, keychain 2 with at most one,
\* each script used or not; without txids and outpoints, or with the txids "tx1" and
\* "tx3" and, when the server knows "tx1", the outpoint of its first output.
InitScan ==
    /\ \E nk \in 0..2 :
        \E n1 \in 0..(IF nk >= 1 THEN MaxScripts ELSE 0) :
            \E n2 \in 0..(IF nk >= 2 THEN 1 ELSE 0) :
                /\ request_spks =
                     [k \in 1..nk |-> KeychainIter(k, IF k = 1 THEN n1 ELSE n2, FALSE)]
                /\ \E used1 \in SUBSET (0..(n1 - 1)) :
                     \E used2 \in SUBSET (0..(n2 - 1)) :
                        spk_history =
                            [spk \in {<<1, i>> : i \in used1} \cup {<<2, i>> : i \in used2}
                                |-> ScanHistory(spk[1])]
    /\ stop_gap \in 0..MaxStopGap
    /\ batch_size \in 1..MaxBatchSize
    /\ txids \in {<<>>, <<"tx1", "tx3">>}
    /\ \E n \in 1..(MaxScanHeight + 1) : s_chain = [i \in 1..n |-> 0]
    /\ s_events = 0
    /\ s_pc = "reconcile"
    /\ scanned_spks = EmptyMap
    /\ s_anchor_block = [height |-> 0, hash |-> LocalHash(0)]
    /\ update = NewUpdate([height |-> 0, hash |-> LocalHash(0)])
    /\ s_result = [tag |-> "None", err |-> ""]
    /\ attempts = 0
    /\ s_fault = NoFault
    /\ replayed = NoReplay
    /\ p_pc = "idle"
    /\ spks = <<>>
    /\ unused_spk_count = 0
    /\ p_scanned_spks = EmptyMap
    /\ queried = {}
    /\ txs = ScanLedger
    /\ outpoints = IF txids # <<>> /\ "tx1" \in DOMAIN txs
                   THEN <<OutPoint("tx1", 0)>> ELSE <<>>
    /\ l_pc = "idle"
    /\ l_i = 0
    /\ full_txs = {}
    /\ l_result = [tag |-> "None", err |-> ""]
    /\ l_log = <<>>
    /\ InitChainIdle
    /\ InitAnchorIdle
    /\ InitFinalIdle
    /\ InitPersistIdle

NextScan == ScanReconcile \/ ScanSpks \/ ScanLookups \/ ScanCheck \/ ScanNewBlock \/ ScanReorg

SpecScan == InitScan /\ [][NextScan]_vars

(***************************************************************************)
(* scan_without_keychain                                                   *)
(***************************************************************************)

\* usize::MAX, as far as the integers of the model go.
UsizeMax == 2147483647

\* An iterator that numbers the scripts from 1.
EnumerateFromOne(misc) ==
    ReplayIter([j \in 1..Len(misc) |-> [key |-> AsU32(j), spk |-> misc[j]]])

\* misc_spks.into_iter().enumerate().map(|(i, spk)| (i as u32, spk))
EnumerateIter(misc) ==
    ReplayIter([j \in 1..Len(misc) |-> [key |-> AsU32(j - 1), spk |-> misc[j]]])

\* The lists of n scripts scan_without_keychain is called with: scripts of no keychain,
\* in one order and in the reverse order.
MiscSpks(n) == {[j \in 1..n |-> <<0, j - 1>>], [j \in 1..n |-> <<0, n - j>>]}

\* scan_without_keychain is called with up to MaxScripts scripts, each used or not, and
\* without txids and outpoints: scan is called with the one keychain (), written 1, and
\* the stop gap usize::MAX.
InitScanWithoutKeychain ==
    /\ \E n \in 0..MaxScripts :
        /\ \E misc \in MiscSpks(n) : request_spks = [k \in {1} |-> EnumerateIter(misc)]
        /\ \E used \in SUBSET (0..(n - 1)) :
            spk_history = [spk \in {<<0, i>> : i \in used} |-> ScanHistory(1)]
    /\ stop_gap = UsizeMax
    /\ batch_size \in 1..MaxBatchSize
    /\ txids = <<>>
    /\ outpoints = <<>>
    /\ txs = ScanLedger
    /\ \E n \in 1..(MaxScanHeight + 1) : s_chain = [i \in 1..n |-> 0]
    /\ s_events = 0
    /\ s_pc = "reconcile"
    /\ scanned_spks = EmptyMap
    /\ s_anchor_block = [height |-> 0, hash |-> LocalHash(0)]
    /\ update = NewUpdate([height |-> 0, hash |-> LocalHash(0)])
    /\ s_result = [tag |-> "None", err |-> ""]
    /\ attempts = 0
    /\ s_fault = NoFault
    /\ replayed = NoReplay
    /\ p_pc = "idle"
    /\ spks = <<>>
    /\ unused_spk_count = 0
    /\ p_scanned_spks = EmptyMap
    /\ queried = {}
    /\ l_pc = "idle"
    /\ l_i = 0
    /\ full_txs = {}
    /\ l_result = [tag |-> "None", err |-> ""]
    /\ l_log = <<>>
    /\ InitChainIdle
    /\ InitAnchorIdle
    /\ InitFinalIdle
    /\ InitPersistIdle

SpecScanWithoutKeychain == InitScanWithoutKeychain /\ [][NextScan]_vars

(***************************************************************************)
(* The retry loops of prepare_chain_update and of scan, with the steps of  *)
(* the call taken whenever they can be                                     *)
(***************************************************************************)

\* prepare_chain_update called against a short remote chain with a previous tip of at
\* most two checkpoints.
InitChainFair ==
    /\ InitChain
    /\ Len(chain) <= 2
    /\ prev_tip <= 2

\* scan called with keychains of at most one script each and a batch size of one.
InitScanFair ==
    /\ InitScan
    /\ batch_size = 1
    /\ \A k \in DOMAIN request_spks : request_spks[k].len <= 1

NextRetry == NextChain \/ NextScan

\* A step of scan: each of ScanReconcile, ScanSpks, ScanLookups and ScanCheck moves
\* s_pc on, a step of the remote does not, and one of the four can be taken wherever
\* scan has not returned.
ScanStep ==
    /\ s_pc \notin {"idle", "done"}
    /\ s_pc' \in {"reconcile", "spks", "lookups", "check", "done"}
    /\ s_pc' # s_pc

\* The call is sequential: its next remote call is made and answered, so the steps of
\* prepare_chain_update and of scan are taken whenever they can be.  The remote changes
\* its tip at most MaxEvents times, whenever it likes.
FairRetry ==
    /\ InitChainFair \/ InitScanFair
    /\ [][NextRetry]_vars
    /\ WF_vars(Subscribe \/ Walk \/ Pop)
    /\ WF_s_pc(ScanStep)

(***************************************************************************)
(* Properties of scan                                                      *)
(***************************************************************************)
ScanReturnedOk == s_pc = "done" /\ s_result.tag = "Ok"

\* The anchors of the update at hand.
UpdateAnchors == UNION {update.graph_update[t] : t \in DOMAIN update.graph_update}

\* C11: in the update of every attempt, and so in every update scan returns, each anchor
\* is anchored at the attempt's anchor block, the head of the update's chain, and its
\* confirmation height is at most the height of that block.
AnchorsWithinAnchorBlock ==
    \A a \in UpdateAnchors :
        /\ a.anchor_block = s_anchor_block
        /\ a.anchor_block = update.chain_update
        /\ a.confirmation_height <= a.anchor_block.height

\* scan returned, after a retry, an update with an anchor confirmed at the very height of
\* the anchor block.
AnchorsWithinAnchorBlockWitness ==
    /\ ScanReturnedOk
    /\ attempts >= 2
    /\ \E a \in UpdateAnchors :
        a.confirmation_height = a.anchor_block.height /\ a.confirmation_height > 0

\* The iterators of the keychains as scan got them.
InitialRequest == [k \in DOMAIN request_spks |-> [request_spks[k] EXCEPT !.next = 0]]

\* The scripts of the first n attempts of a scan of the same keychains, against the same
\* histories, with batch size b: the iterators, the records and the graph of attempt n.
RECURSIVE AfterAttempts(_, _)
AfterAttempts(n, b) ==
    IF n = 0 THEN [req |-> InitialRequest, scanned |-> EmptyMap, graph |-> EmptyMap]
    ELSE AttemptSpks(AfterAttempts(n - 1, b).req, AfterAttempts(n - 1, b).scanned,
                     EmptyMap, s_anchor_block, stop_gap, b)

\* C15: the update scan returns is the one it returns, after as many attempts, with any
\* other batch size: the same records, the same graph and the same keychain update.
BatchSizeIrrelevant ==
    ScanReturnedOk =>
        \A b \in 1..MaxBatchSize :
            /\ scanned_spks = AfterAttempts(attempts, b).scanned
            /\ update.graph_update =
                 PopulateWithOutpoints(
                    PopulateWithTxids(AfterAttempts(attempts, b).graph, s_anchor_block, txids),
                    s_anchor_block, outpoints, {})
            /\ update.keychain_update =
                 KeychainUpdate(DOMAIN request_spks, AfterAttempts(attempts, b).scanned)

\* C16: the scripts scanned and the keychain update of a scan that returns are those of
\* a scan that returns from its first attempt, however many attempts it took.
ScanHaltsDeterministically ==
    ScanReturnedOk =>
        /\ DOMAIN scanned_spks = DOMAIN AfterAttempts(1, batch_size).scanned
        /\ update.keychain_update =
             KeychainUpdate(DOMAIN request_spks, AfterAttempts(1, batch_size).scanned)

\* C18: the keychain update of a returned update maps each requested keychain with a
\* script recorded as used to the highest index of its scripts recorded as used, and
\* holds no other keychain; until scan returns it is empty.
KeychainUpdateIsHighestUsed ==
    IF ScanReturnedOk
    THEN /\ DOMAIN update.keychain_update =
                {k \in DOMAIN request_spks : ActiveIndices(scanned_spks, k) # {}}
         /\ \A k \in DOMAIN update.keychain_update :
                update.keychain_update[k] = Max(ActiveIndices(scanned_spks, k))
    ELSE update.keychain_update = EmptyMap

\* scan returned for a keychain with two scripts recorded as used and a requested
\* keychain with none.
KeychainUpdateIsHighestUsedWitness ==
    /\ ScanReturnedOk
    /\ \E k \in DOMAIN request_spks : Cardinality(ActiveIndices(scanned_spks, k)) >= 2
    /\ \E k \in DOMAIN request_spks : k \notin DOMAIN update.keychain_update

\* The hash the server has at the height of the anchor block differs from the anchor's.
ServerDisagrees ==
    /\ s_anchor_block.height < Len(s_chain)
    /\ HashAt(s_chain, s_anchor_block.height) # s_anchor_block.hash

\* C20: the step that makes scan return an update is a check that found the server's
\* hash at the anchor height equal to the anchor block's hash, and it returns the update
\* of that attempt; a check that finds them different returns no update and no error of
\* its own (only a failure of the header call itself ends the scan), it starts the loop
\* over, and the attempt that follows begins with a new reconciliation and a new, empty
\* update.
ReturnsOnlyCheckedAttempt ==
    [][/\ (s_pc = "check" /\ s_result'.tag = "Ok") =>
            /\ ~ServerDisagrees
            /\ s_anchor_block.height < Len(s_chain)
            /\ update'.chain_update = s_anchor_block
            /\ update'.graph_update = update.graph_update
       /\ (s_pc = "check" /\ s_pc' # "check" /\ ServerDisagrees) =>
            \/ s_pc' = "reconcile" /\ s_result' = s_result /\ s_result.tag = "None"
            \/ s_pc' = "done" /\ s_result' = [tag |-> "Err", err |-> "Transport"]
       /\ (s_pc = "check" /\ s_pc' = "reconcile") => ServerDisagrees
       /\ (s_pc = "reconcile" /\ s_pc' = "spks") =>
            /\ update' = NewUpdate(TipBlock(s_chain))
            /\ s_anchor_block' = TipBlock(s_chain)
            /\ attempts' = attempts + 1
      ]_vars

\* scan returned an update from its second attempt.
ReturnsOnlyCheckedAttemptWitness ==
    /\ ScanReturnedOk
    /\ attempts = 2
    /\ DOMAIN update.graph_update # {}

(***************************************************************************)
(* ElectrumUpdate::finalize and finalize_as_confirmation_time              *)
(*                                                                         *)
(* TxGraph is a type of bdk_chain.  It is modelled by what finalize puts   *)
(* into it: the txids whose full transaction it holds, the last-seen time  *)
(* of the txids that were stamped, and its (anchor, txid) pairs.           *)
(***************************************************************************)

\* Highest block height of an anchor of the update that is finalized.
MaxFinalHeight == 2

\* The time in the header of the server's block at height h.
BlockTime(h) == 600 * (h + 1)

\* TxGraph::new(new_txs)
TxGraphNew(new_txs) == [txs |-> new_txs, last_seen |-> EmptyMap, anchors |-> {}]

\* TxGraph::insert_seen_at: the latest time is kept.
InsertSeenAt(g, txid, t) ==
    [g EXCEPT !.last_seen =
        Insert(g.last_seen, txid,
               IF txid \in DOMAIN g.last_seen THEN Max({g.last_seen[txid], t}) ELSE t)]

\* TxGraph::insert_anchor
InsertAnchor(g, txid, a) == [g EXCEPT !.anchors = @ \cup {[anchor |-> a, txid |-> txid]}]

\* for anchor in anchors { graph_update.insert_anchor(txid, anchor) }
RECURSIVE InsertAnchors(_, _, _)
InsertAnchors(g, txid, as) ==
    IF as = {} THEN g
    ELSE LET a == CHOOSE x \in as : TRUE
         IN  InsertAnchors(InsertAnchor(g, txid, a), txid, as \ {a})

\* The body of the loop of finalize that stamps a txid only when it has an anchor.
FinalizeEntryAnchoredOnly(g, txid, as, seen) ==
    InsertAnchors(IF seen.some /\ as # {} THEN InsertSeenAt(g, txid, seen.val) ELSE g,
                  txid, as)

\* The body of for (txid, anchors) in self.graph_update
FinalizeEntry(g, txid, as, seen) ==
    InsertAnchors(IF seen.some THEN InsertSeenAt(g, txid, seen.val) ELSE g, txid, as)

\* for (txid, anchors) in self.graph_update { ... } over the txids S of the map gu
RECURSIVE FinalizeGraph(_, _, _, _)
FinalizeGraph(g, gu, S, seen) ==
    IF S = {} THEN g
    ELSE LET t == CHOOSE x \in S : TRUE
         IN  FinalizeGraph(FinalizeEntry(g, t, gu[t], seen), gu, S \ {t}, seen)

\* The members of a sequence as a set.
Range(q) == {q[j] : j \in 1..Len(q)}

\* finalize, once batch_transaction_get has returned the transactions of missing.
Finalize(u, seen, new_txs) ==
    [keychain |-> u.keychain_update,
     graph    |-> FinalizeGraph(TxGraphNew(new_txs), u.graph_update, DOMAIN u.graph_update,
                                seen),
     tip      |-> u.chain_update]

\* batch_transaction_get: the transactions, or an error.
BatchTransactionGetReplies(ts) ==
    {[err |-> "", val |-> Range(ts)]} \cup {[err |-> e, val |-> {}] : e \in Errors}

\* The order of the anchors in the set of (anchor, txid) pairs of the graph:
\* anchor_block first, confirmation_height next.
AnchorLess(a, b) ==
    \/ a.anchor_block.height < b.anchor_block.height
    \/ /\ a.anchor_block.height = b.anchor_block.height
       /\ a.confirmation_height < b.confirmation_height

\* update.graph.all_anchors().iter(): the anchors of the set S in their order.
RECURSIVE SortedAnchors(_)
SortedAnchors(S) ==
    IF S = {} THEN <<>>
    ELSE LET m == CHOOSE x \in S : \A y \in S : x = y \/ AnchorLess(x, y)
         IN  <<m>> \o SortedAnchors(S \ {m})

\* .filter(move |&h| visited_heights.insert(h)): the first occurrence of each member.
RECURSIVE Distinct(_)
Distinct(q) ==
    IF q = <<>> THEN <<>>
    ELSE LET front == SubSeq(q, 1, Len(q) - 1)
         IN  IF q[Len(q)] \in Range(front) THEN Distinct(front)
             ELSE Append(Distinct(front), q[Len(q)])

\* The heights of the anchor blocks in place of the confirmation heights.
RelevantAnchorBlockHeights(g) ==
    LET sorted == SortedAnchors({x.anchor : x \in g.anchors})
    IN  Distinct([j \in 1..Len(sorted) |-> sorted[j].anchor_block.height])

\* let relevant_heights
RelevantHeights(g) ==
    LET sorted == SortedAnchors({x.anchor : x \in g.anchors})
    IN  Distinct([j \in 1..Len(sorted) |-> sorted[j].confirmation_height])

\* batch_block_header: the times of the headers at the heights asked for, in the order
\* asked; a reply that is one header short; or an error.
BatchBlockHeaderReplies(heights) ==
    {[err |-> "", val |-> [j \in 1..Len(heights) |-> BlockTime(heights[j])]]}
    \cup {[err |-> "", val |-> [j \in 1..(Len(heights) - 1) |-> BlockTime(heights[j])]]}
    \cup {[err |-> e, val |-> <<>>] : e \in Errors}

\* The pairing of the heights with the times in reverse.
HeightToTimeReversed(heights, times) ==
    [h \in {heights[j] : j \in 1..Min({Len(heights), Len(times)})} |->
        times[Min({Len(heights), Len(times)}) + 1
              - (CHOOSE j \in 1..Len(heights) : heights[j] = h)]]

\* let height_to_time: relevant_heights zipped with the times of the headers returned
HeightToTime(heights, times) ==
    [h \in {heights[j] : j \in 1..Min({Len(heights), Len(times)})} |->
        times[CHOOSE j \in 1..Len(heights) : heights[j] = h]]

\* ConfirmationTimeAnchor { anchor_block, confirmation_height, confirmation_time }
TimeAnchor(a, height_to_time) ==
    [anchor_block |-> a.anchor_block, confirmation_height |-> a.confirmation_height,
     confirmation_time |-> height_to_time[a.confirmation_height]]

\* let graph_additions, applied to an empty graph: the transactions and the last-seen
\* times as they are, each anchor turned into a time anchor.
TimeGraph(g, height_to_time) ==
    [g EXCEPT !.anchors =
        {[anchor |-> TimeAnchor(x.anchor, height_to_time), txid |-> x.txid] :
            x \in g.anchors}]

FinalOk(local) == [tag |-> "Ok", keychain |-> local.keychain, graph |-> local.graph,
                   tip |-> local.tip]
FinalPending(local) == [tag |-> "Pending", keychain |-> local.keychain,
                        graph |-> local.graph, tip |-> local.tip]
FinalErr(e) == [tag |-> "Err", err |-> e]
FinalPanic == [tag |-> "Panic"]

\* An entry of the log of the batch calls.
Called(call, arg, r) == [call |-> call, arg |-> arg, err |-> r.err, val |-> r.val]

\* What a step of finalize leaves alone.
FinalFrame ==
    UNCHANGED <<seen_at, missing, chainVars, anchorVars, scanVars, lookupVars, persistVars>>

\* finalize: the batch fetch of the missing transactions, and the graph of the update.
FinalizeFetch ==
    /\ f_pc \in {"finalize", "finalize_as_confirmation_time"}
    /\ \E r \in BatchTransactionGetReplies(missing) :
        /\ f_log' = Append(f_log, Called("batch_transaction_get", missing, r))
        /\ IF r.err # ""
           THEN /\ final' = FinalErr(r.err)
                /\ f_pc' = "done"
           ELSE IF f_pc = "finalize"
           THEN /\ final' = FinalOk(Finalize(update, seen_at, r.val))
                /\ f_pc' = "done"
           ELSE /\ final' = FinalPending(Finalize(update, seen_at, r.val))
                /\ f_pc' = "headers"
    /\ FinalFrame

\* finalize_as_confirmation_time after finalize: the headers of the heights of the
\* anchors are fetched and each anchor is given the time of its height.  Indexing
\* height_to_time with a height it does not hold panics.
FinalizeTimes ==
    /\ f_pc = "headers"
    /\ LET relevant_heights == RelevantHeights(final.graph)
       IN  \E r \in BatchBlockHeaderReplies(relevant_heights) :
             LET height_to_time == HeightToTime(relevant_heights, r.val)
             IN  /\ f_log' = Append(f_log, Called("batch_block_header", relevant_heights, r))
                 /\ IF r.err # "" THEN final' = FinalErr(r.err)
                    ELSE IF \E x \in final.graph.anchors :
                                x.anchor.confirmation_height \notin DOMAIN height_to_time
                    THEN final' = FinalPanic
                    ELSE final' = [final EXCEPT !.tag = "Ok",
                                                !.graph = TimeGraph(@, height_to_time)]
    /\ f_pc' = "done"
    /\ FinalFrame

\* The height anchors of an update: a transaction confirmed at or below the anchor block.
FinalAnchors ==
    {a \in {[anchor_block |-> [height |-> b, hash |-> LocalHash(b)],
              confirmation_height |-> h] :
                b \in 1..MaxFinalHeight, h \in 1..MaxFinalHeight} :
        a.confirmation_height <= a.anchor_block.height}

\* The sets of anchors of a txid in the update: at most two anchors.
FinalAnchorSets == {as \in SUBSET FinalAnchors : Cardinality(as) <= 2}

\* One of the two methods is called on an update whose graph map holds some of "tx1" and
\* "tx2", each with a set of anchors that may be empty.
InitFinalize ==
    /\ \E S \in SUBSET {"tx1", "tx2"} :
        \E gu \in [S -> FinalAnchorSets] :
            \E ku \in {EmptyMap, [k \in {1} |-> 2]} :
                update = [chain_update |-> [height |-> MaxFinalHeight,
                                            hash |-> LocalHash(MaxFinalHeight)],
                          graph_update |-> gu, keychain_update |-> ku]
    /\ seen_at \in {NoneU64, SomeU64(0), SomeU64(7)}
    /\ missing \in {<<>>, <<"tx1">>, <<"tx3", "tx1">>}
    /\ f_pc \in {"finalize", "finalize_as_confirmation_time"}
    /\ final = NoFinal
    /\ f_log = <<>>
    /\ spk_history = EmptyMap
    /\ s_chain = <<0>>
    /\ s_events = 0
    /\ stop_gap = 0
    /\ batch_size = 1
    /\ txids = <<>>
    /\ p_pc = "idle"
    /\ spks = <<>>
    /\ unused_spk_count = 0
    /\ p_scanned_spks = EmptyMap
    /\ s_pc = "idle"
    /\ request_spks = EmptyMap
    /\ scanned_spks = EmptyMap
    /\ s_anchor_block = [height |-> 0, hash |-> LocalHash(0)]
    /\ s_result = [tag |-> "None", err |-> ""]
    /\ queried = {}
    /\ attempts = 0
    /\ s_fault = NoFault
    /\ replayed = NoReplay
    /\ InitChainIdle
    /\ InitAnchorIdle
    /\ InitLookupIdle
    /\ InitPersistIdle

NextFinalize == FinalizeFetch \/ FinalizeTimes

SpecFinalize == InitFinalize /\ [][NextFinalize]_vars

(***************************************************************************)
(* Stage and Persist (crates/persist/src/persist.rs)                       *)
(*                                                                         *)
(* Stage is generic in the changeset type C: Default + Append.  A          *)
(* changeset is modelled with the two kinds of content a changeset has: a  *)
(* field that the latest write wins (TestChangeSet of the tests is this    *)
(* field alone; DbCommitment::network is one) and a collection that is     *)
(* merged by union (DbCommitment::chain and tx_graph).  The backend is     *)
(* TestBackend: it fails to write a changeset that prints as "ERROR".      *)
(***************************************************************************)

\* Number of elements the collection of a changeset ranges over.
MaxItems == 1
\* Number of changesets staged between two commits that returned Ok.
MaxStaged == 2

\* The field of a changeset: "" is None.
Texts == {"", "ONE", "TWO", "ERROR"}

ChangeSets == [text : Texts, items : SUBSET (1..MaxItems)]

\* Append::append
AppendTo(a, b) ==
    [text  |-> IF b.text # "" THEN b.text ELSE a.text,
     items |-> a.items \cup b.items]

\* Append::is_empty
IsEmpty(c) == c.text = "" /\ c.items = {}

\* impl fmt::Display (to_string): the field, or the empty string
ToText(c) == c.text

\* The guard of commit that finds nothing staged ever.
NothingStagedNever(stg) == FALSE

\* if self.staged().is_empty()
NothingStaged(stg) == IsEmpty(stg)

\* TestBackend::write_changes: the error it returns, "" when it writes.
WriteError(c) == IF ToText(c) = "ERROR" THEN "FailedWrite" ELSE ""

OkNone == [tag |-> "OkNone", val |-> DefaultChangeSet]
OkSome(c) == [tag |-> "OkSome", val |-> c]
WriteErr == [tag |-> "Err", val |-> DefaultChangeSet]

\* What the other operations of the model leave alone.
PersistFrame == UNCHANGED <<chainVars, anchorVars, scanVars, lookupVars, finalVars>>

\* Stage::commit on a backend whose stage holds stg: what it leaves in the stage and in
\* the backend, what it returns and what it wrote.
CommitOf(stg) ==
    IF NothingStaged(stg)
    THEN [staged |-> stg, changeset |-> changeset, result |-> OkNone, called |-> FALSE,
          arg |-> DefaultChangeSet]
    ELSE \* let staged = self.take_staged(): the stage is set to default
         IF WriteError(stg) # ""
         THEN [staged |-> DefaultChangeSet, changeset |-> changeset, result |-> WriteErr,
               called |-> TRUE, arg |-> stg]
         ELSE [staged |-> DefaultChangeSet, changeset |-> stg, result |-> OkSome(stg),
               called |-> TRUE, arg |-> stg]

\* The history of a commit that found the changesets due staged since the last Ok.
AfterCommit(r, due) ==
    /\ c_written' = [called |-> r.called, arg |-> r.arg, due |-> due,
                     applied |-> IF r.result.tag = "OkSome"
                                 THEN AppendTo(c_written.applied, r.arg)
                                 ELSE c_written.applied]
    /\ since' = IF r.result.tag = "Err" THEN due ELSE <<>>

\* TestBackend::stage
Stage(c) ==
    /\ c_op # "idle"
    /\ Len(since) < MaxStaged
    /\ staged' = AppendTo(staged, c)
    /\ since' = since \o <<c>>
    /\ c_op' = "stage"
    /\ c_written' = [NoWrite EXCEPT !.applied = c_written.applied]
    /\ UNCHANGED <<changeset, c_result>>
    /\ PersistFrame

\* Stage::commit
Commit ==
    /\ c_op # "idle"
    /\ LET r == CommitOf(staged)
       IN  /\ staged' = r.staged
           /\ changeset' = r.changeset
           /\ c_result' = r.result
           /\ AfterCommit(r, since)
    /\ c_op' = "commit"
    /\ PersistFrame

\* Stage::stage_and_commit
StageAndCommit(c) ==
    /\ c_op # "idle"
    /\ Len(since) < MaxStaged
    /\ LET r == CommitOf(AppendTo(staged, c))
       IN  /\ staged' = r.staged
           /\ changeset' = r.changeset
           /\ c_result' = r.result
           /\ AfterCommit(r, since \o <<c>>)
    /\ c_op' = "stage_and_commit"
    /\ PersistFrame

\* TestBackend::load_changes: what it returns.
LoadOf(stored) ==
    IF ToText(stored) = "ERROR" THEN [tag |-> "FailedLoad", val |-> DefaultChangeSet]
    ELSE [tag |-> "Loaded", val |-> stored]

\* Persist::load_changes on the TestBackend
Load ==
    /\ c_op # "idle"
    /\ c_result' = LoadOf(changeset)
    /\ c_op' = "load"
    /\ c_written' = [NoWrite EXCEPT !.applied = c_written.applied]
    /\ UNCHANGED <<changeset, staged, since>>
    /\ PersistFrame

\* A backend that holds nothing and has nothing staged.
InitPersist ==
    /\ changeset = DefaultChangeSet
    /\ staged = DefaultChangeSet
    /\ c_op = "new"
    /\ c_result = NoCommit
    /\ c_written = NoWrite
    /\ since = <<>>
    /\ InitChainIdle
    /\ InitAnchorIdle
    /\ InitScanIdle
    /\ InitLookupIdle
    /\ InitFinalIdle

NextPersist ==
    \/ \E c \in ChangeSets : Stage(c)
    \/ Commit
    \/ \E c \in ChangeSets : StageAndCommit(c)
    \/ Load

SpecPersist == InitPersist /\ [][NextPersist]_vars

(***************************************************************************)
(* DbCommitment (crates/sqlite_store/src/lib.rs) as the changeset of Stage *)
(*                                                                         *)
(* chain and tx_graph are changesets of bdk_chain; each is modelled as a   *)
(* collection that append merges by union and that is empty when it holds  *)
(* nothing.  The store behind the stage is modelled by what it has been    *)
(* given to write, appended in order; it refuses a changeset of another    *)
(* network than the one it holds (Error::Network).                         *)
(***************************************************************************)

\* Option<Network>: "" is None.
Networks == {"", "bitcoin", "testnet"}

\* What the changes to the chain and to the graph range over.
ChainChanges == {1, 2}
GraphChanges == {1}

DbCommitments ==
    [network : Networks, chain : SUBSET ChainChanges, tx_graph : SUBSET GraphChanges]

\* impl Default for DbCommitment
DbDefault == [network |-> "", chain |-> {}, tx_graph |-> {}]

\* An append that lets the network of other replace the one held.
DbAppendLastNetwork(x, other) ==
    [ok       |-> TRUE,
     network  |-> IF other.network # "" THEN other.network ELSE x.network,
     chain    |-> x.chain \cup other.chain,
     tx_graph |-> x.tx_graph \cup other.tx_graph]

\* DbCommitment::append: ok is FALSE when assert_eq! panics, before anything is changed.
DbAppend(x, other) ==
    IF x.network # "" /\ other.network # "" /\ x.network # other.network
    THEN [ok |-> FALSE, network |-> x.network, chain |-> x.chain, tx_graph |-> x.tx_graph]
    ELSE [ok       |-> TRUE,
          network  |-> IF x.network = "" THEN other.network ELSE x.network,
          chain    |-> x.chain \cup other.chain,
          tx_graph |-> x.tx_graph \cup other.tx_graph]

\* DbCommitment::is_empty
DbIsEmpty(x) == x.chain = {} /\ x.tx_graph = {}

\* The fields of a DbCommitment out of the result of an append.
DbFields(r) == [network |-> r.network, chain |-> r.chain, tx_graph |-> r.tx_graph]

\* Stage::stage with a DbCommitment: self.staged.append(changeset).  since holds the
\* first network that an append gave to the staged value, once there was one.
DbStage(c) ==
    /\ c_op \in {"db_new", "db_stage", "db_commit"}
    /\ LET r == DbAppend(staged, c)
       IN  /\ staged' = DbFields(r)
           /\ c_op' = IF r.ok THEN "db_stage" ELSE "db_panic"
           /\ since' = IF r.ok /\ since = <<>> /\ c.network # "" THEN <<c.network>>
                       ELSE since
    /\ UNCHANGED <<changeset, c_result, c_written>>
    /\ PersistFrame

\* Stage::commit with a DbCommitment; the write to the store fails for another network
\* than the stored one and may fail for a reason of the database.
DbCommit ==
    /\ c_op \in {"db_new", "db_stage", "db_commit"}
    /\ c_op' = "db_commit"
    /\ IF DbIsEmpty(staged)
       THEN /\ c_result' = [tag |-> "OkNone", val |-> DbDefault]
            /\ UNCHANGED <<staged, changeset, since>>
       ELSE /\ staged' = DbDefault
            /\ since' = <<>>
            /\ \/ /\ DbAppend(changeset, staged).ok
                  /\ c_result' = [tag |-> "OkSome", val |-> staged]
                  /\ changeset' = DbFields(DbAppend(changeset, staged))
               \/ /\ c_result' = [tag |-> "Err", val |-> DbDefault]
                  /\ UNCHANGED changeset
    /\ UNCHANGED c_written
    /\ PersistFrame

\* A stage with a default DbCommitment over an empty store.
InitDb ==
    /\ changeset = DbDefault
    /\ staged = DbDefault
    /\ c_op = "db_new"
    /\ c_result = [tag |-> "None", val |-> DbDefault]
    /\ c_written = NoWrite
    /\ since = <<>>
    /\ InitChainIdle
    /\ InitAnchorIdle
    /\ InitScanIdle
    /\ InitLookupIdle
    /\ InitFinalIdle

NextDb == (\E c \in DbCommitments : DbStage(c)) \/ DbCommit

SpecDb == InitDb /\ [][NextDb]_vars

(***************************************************************************)
(* Properties of Stage                                                     *)
(***************************************************************************)

\* The changesets of a sequence appended one after the other, oldest first.
RECURSIVE Merge(_)
Merge(cs) ==
    IF cs = <<>> THEN DefaultChangeSet
    ELSE AppendTo(Merge(SubSeq(cs, 1, Len(cs) - 1)), cs[Len(cs)])

\* C28: when write_changes fails during commit, commit returns the write error and the
\* staged changeset is still in the stage afterwards, so a later commit writes it again.
StageIntactOnWriteError ==
    [][Commit /\ c_result'.tag = "Err" => staged' = staged]_vars

\* C29: commit on an empty stage returns Ok(None), does not call write_changes and
\* leaves the backend and the stage as they are; the commit that follows a commit which
\* wrote returns Ok(None).
EmptyCommitIsNoOp ==
    [][Commit =>
        /\ NothingStaged(staged) =>
            /\ c_result' = OkNone
            /\ ~c_written'.called
            /\ changeset' = changeset
            /\ staged' = staged
        /\ (c_op \in {"commit", "stage_and_commit"} /\ c_result.tag = "OkSome") =>
            c_result' = OkNone]_vars

\* A commit on an empty stage was made after an earlier commit had written.
EmptyCommitIsNoOpWitness ==
    /\ c_op = "commit"
    /\ c_result = OkNone
    /\ ~c_written.called
    /\ ~IsEmpty(changeset)
    /\ IsEmpty(staged)

LookupReturnedOk == l_pc = "done" /\ l_result.tag = "Ok"

\* C23: in populate_with_txids a protocol error of transaction_get is passed over: the
\* txid adds nothing to the update and the loop goes on with the next txid, so that a
\* call that returns Ok has gone through every txid; any other error of transaction_get
\* and any error of script_get_history is what the call returns.
TxidProtocolErrorSwallowed ==
    /\ [][TxidStep =>
            LET e == l_log'[Len(l_log')]
            IN  /\ e.fetch = "Protocol" =>
                    /\ update' = update
                    /\ l_i' = l_i + 1
                    /\ l_pc' = "txids"
                    /\ l_result' = l_result
                /\ e.fetch \in Errors \ {"Protocol"} =>
                    /\ l_pc' = "done"
                    /\ l_result' = [tag |-> "Err", err |-> e.fetch]
                /\ e.history \in Errors =>
                    /\ l_pc' = "done"
                    /\ l_result' = [tag |-> "Err", err |-> e.history]]_vars
    /\ [](LookupReturnedOk /\ txids # <<>> =>
            /\ Len(l_log) = Len(txids)
            /\ \A j \in 1..Len(txids) :
                (l_log[j].fetch = "Ok" /\ HasEntry(HistoryOf(txs[txids[j]].output[1]), txids[j]))
                    => txids[j] \in DOMAIN update.graph_update)

\* The fetch of the first txid met a protocol error and the second txid was added.
TxidProtocolErrorSwallowedWitness ==
    /\ LookupReturnedOk
    /\ Len(txids) = 2
    /\ l_log[1].fetch = "Protocol"
    /\ l_log[2].fetch = "Ok"
    /\ DOMAIN update.graph_update = {txids[2]}

\* The script of the output an outpoint refers to; <<>> when the transaction has no
\* such output.
OutpointSpk(outpoint) ==
    IF outpoint.vout < Len(txs[outpoint.txid].output)
    THEN txs[outpoint.txid].output[outpoint.vout + 1]
    ELSE <<>>

\* The positions of the entries of the owning transaction in the history of the
\* outpoint's script, and of the entries of transactions that spend the outpoint.
OwnPositions(outpoint) ==
    {j \in 1..Len(HistoryOf(OutpointSpk(outpoint))) :
        HistoryOf(OutpointSpk(outpoint))[j].tx_hash = outpoint.txid}
SpendPositions(outpoint) ==
    {j \in 1..Len(HistoryOf(OutpointSpk(outpoint))) :
        /\ HistoryOf(OutpointSpk(outpoint))[j].tx_hash # outpoint.txid
        /\ outpoint \in txs[HistoryOf(OutpointSpk(outpoint))[j].tx_hash].input}

\* The entries a lookup of the outpoint is to take: the first entry of the owning
\* transaction and the first entry of a spending transaction.
TakenEntries(outpoint) ==
    {HistoryOf(OutpointSpk(outpoint))[j] :
        j \in (IF OwnPositions(outpoint) = {} THEN {} ELSE {Min(OwnPositions(outpoint))})
              \cup (IF SpendPositions(outpoint) = {} THEN {}
                    ELSE {Min(SpendPositions(outpoint))})}

\* The entries taken for all the outpoints of the call.
AllTakenEntries == UNION {TakenEntries(outpoints[j]) : j \in 1..Len(outpoints)}

\* C24: the outpoint lookup adds, for each outpoint, the owning transaction and the first
\* transaction in history order that spends that exact outpoint, each with the anchor of
\* the entry taken; no other entry of the history adds a txid or an anchor, repeated
\* entries included.
OutpointSpendDetection ==
    (LookupReturnedOk /\ outpoints # <<>>) =>
        /\ DOMAIN update.graph_update = {e.tx_hash : e \in AllTakenEntries}
        /\ \A t \in DOMAIN update.graph_update :
            update.graph_update[t] =
                {AnchorOf(DetermineTxAnchor(s_anchor_block, e.height, t)) :
                    e \in {x \in AllTakenEntries :
                            /\ x.tx_hash = t
                            /\ DetermineTxAnchor(s_anchor_block, x.height, t).tag = "Some"}}

\* The history of the outpoint's script holds the owning transaction twice, at two
\* heights, and a spender; both transactions were added with one anchor each.
OutpointSpendDetectionWitness ==
    /\ LookupReturnedOk
    /\ outpoints = <<OutPoint("tx1", 0)>>
    /\ Cardinality(OwnPositions(outpoints[1])) = 2
    /\ SpendPositions(outpoints[1]) # {}
    /\ Cardinality(DOMAIN update.graph_update) = 2
    /\ \A t \in DOMAIN update.graph_update : Cardinality(update.graph_update[t]) = 1
    /\ \E i, j \in OwnPositions(outpoints[1]) :
        HistoryOf(<<1, 0>>)[i].height # HistoryOf(<<1, 0>>)[j].height

(***************************************************************************)
(* Further properties of scan                                              *)
(***************************************************************************)

\* C22: an error of a remote call in any step of an attempt (prepare_chain_update, the
\* history queries of the scripts, the lookups of txids and outpoints, the header of the
\* final check) is what scan returns, at once: no step follows and there is no update.
ScanErrorReturned ==
    s_fault.err # "" =>
        /\ s_pc = "done"
        /\ s_result = [tag |-> "Err", err |-> s_fault.err]
        /\ update = NewUpdate([height |-> 0, hash |-> LocalHash(0)])

\* The header call of the final check of the second attempt failed.
ScanErrorReturnedWitness ==
    /\ s_fault.step = "check"
    /\ s_fault.err = "Transport"
    /\ attempts = 2
    /\ s_result.tag = "Err"

\* C21: in an attempt after the first, the replay goes through every script that the
\* earlier attempts recorded, before the keychains are gone on with, so that the update
\* scan returns holds the history of each of them as classified against the anchor block
\* of the attempt that returned.
ReplayCoversScanned ==
    (ScanReturnedOk /\ attempts >= 2) =>
        /\ replayed.again = replayed.had
        /\ \A key \in replayed.had :
            \A j \in 1..Len(HistoryOf(scanned_spks[key].spk)) :
                LET e == HistoryOf(scanned_spks[key].spk)[j]
                    a == DetermineTxAnchor(s_anchor_block, e.height, e.tx_hash)
                IN  /\ e.tx_hash \in DOMAIN update.graph_update
                    /\ a.tag = "Some" => AnchorOf(a) \in update.graph_update[e.tx_hash]

\* The scripts scan_without_keychain was called with.
MiscItems == request_spks[1].items

\* C25: scan_without_keychain is scan over one keychain whose scripts carry the indices
\* 0, 1, 2, ... in the order they were given, with a stop gap that is never exceeded:
\* once an attempt has gone through its scripts, every script given is recorded, at its
\* position, as used or not, however many unused scripts follow one another.
WithoutKeychainScansAll ==
    (s_pc \in {"lookups", "check"} \/ ScanReturnedOk) =>
        /\ DOMAIN scanned_spks = {<<1, j - 1>> : j \in 1..Len(MiscItems)}
        /\ \A j \in 1..Len(MiscItems) :
            /\ scanned_spks[<<1, j - 1>>].spk = MiscItems[j].spk
            /\ scanned_spks[<<1, j - 1>>].used = (HistoryOf(MiscItems[j].spk) # <<>>)

\* A call with MaxScripts scripts in reverse order, none of them used, has returned.
WithoutKeychainScansAllWitness ==
    /\ ScanReturnedOk
    /\ Len(MiscItems) = MaxScripts
    /\ MiscItems[1].spk = <<0, MaxScripts - 1>>
    /\ \A x \in DOMAIN scanned_spks : ~scanned_spks[x].used
    /\ Cardinality(DOMAIN scanned_spks) = MaxScripts

\* The (anchor, txid) pairs of the graph map of an update.
GraphMapAnchors(u) ==
    UNION {{[anchor |-> a, txid |-> t] : a \in u.graph_update[t]} : t \in DOMAIN u.graph_update}

\* The entries of the log of finalize for one batch call.
CallsOf(call) == {j \in 1..Len(f_log) : f_log[j].call = call}

\* The time of the header that the remote returned for the height h in the call j.
ReturnedTime(j, h) ==
    f_log[j].val[CHOOSE k \in 1..Len(f_log[j].arg) : f_log[j].arg[k] = h]

\* C26: when finalize_as_confirmation_time returns an update, its anchors are the height
\* anchors of the update it was called on, each with the same anchor_block and the same
\* confirmation_height and with the time of the header that the remote returned for that
\* height; batch_block_header was called once, with each confirmation height of the
\* anchors once; the keychain indices and the tip are those of the update.
TimeAnchorsFromHeaders ==
    (f_pc = "done" /\ final.tag = "Ok" /\ CallsOf("batch_block_header") # {}) =>
        /\ Cardinality(CallsOf("batch_block_header")) = 1
        /\ \A j \in CallsOf("batch_block_header") :
            /\ Range(f_log[j].arg) =
                    {x.anchor.confirmation_height : x \in GraphMapAnchors(update)}
            /\ Len(f_log[j].arg) = Cardinality(Range(f_log[j].arg))
            /\ final.graph.anchors =
                    {[anchor |-> [anchor_block |-> x.anchor.anchor_block,
                                  confirmation_height |-> x.anchor.confirmation_height,
                                  confirmation_time |->
                                      ReturnedTime(j, x.anchor.confirmation_height)],
                      txid |-> x.txid] : x \in GraphMapAnchors(update)}
        /\ final.keychain = update.keychain_update
        /\ final.tip = update.chain_update

\* Two transactions share a confirmation height, two heights were asked for, and the
\* update with the time anchors was returned.
TimeAnchorsFromHeadersWitness ==
    /\ f_pc = "done"
    /\ final.tag = "Ok"
    /\ \E j \in CallsOf("batch_block_header") : Len(f_log[j].arg) = 2
    /\ final.keychain # EmptyMap
    /\ \E x, y \in final.graph.anchors :
        /\ x.txid # y.txid
        /\ x.anchor.confirmation_height = y.anchor.confirmation_height
        /\ x.anchor.confirmation_time = BlockTime(x.anchor.confirmation_height)

\* C27: once batch_transaction_get of finalize has returned the transactions, the graph
\* of the update of finalize holds every (anchor, txid) pair of the graph map; with
\* seen_at = Some(t) every txid of the graph map is stamped t, with None no txid is
\* stamped.  Once batch_transaction_get has returned an error, that error is what the
\* call returned, and no update.
FinalizeStampsAndCarries ==
    \A j \in CallsOf("batch_transaction_get") :
        IF f_log[j].err # ""
        THEN f_pc = "done" /\ final = [tag |-> "Err", err |-> f_log[j].err]
        ELSE final.tag \in {"Ok", "Pending"} =>
                /\ {[anchor |-> [anchor_block |-> x.anchor.anchor_block,
                                 confirmation_height |-> x.anchor.confirmation_height],
                     txid |-> x.txid] : x \in final.graph.anchors} = GraphMapAnchors(update)
                /\ final.graph.last_seen =
                        IF seen_at.some
                        THEN [t \in DOMAIN update.graph_update |-> seen_at.val]
                        ELSE EmptyMap

\* finalize returned an update for a graph map with an unanchored txid and a txid of
\* two anchors, called with a timestamp.
FinalizeStampsAndCarriesWitness ==
    /\ f_pc = "done"
    /\ final.tag = "Ok"
    /\ CallsOf("batch_block_header") = {}
    /\ seen_at = SomeU64(7)
    /\ \E t1, t2 \in DOMAIN update.graph_update :
        /\ update.graph_update[t1] = {}
        /\ Cardinality(update.graph_update[t2]) = 2
        /\ final.graph.last_seen[t1] = 7

\* The anchors that a step adds to the graph map of the update.
AddedAnchors ==
    UNION {IF t \in DOMAIN update.graph_update
           THEN update'.graph_update[t] \ update.graph_update[t]
           ELSE update'.graph_update[t] : t \in DOMAIN update'.graph_update}

\* C33: in an update that scan returns every anchor is anchored at the head of the
\* update's chain_update.  No anchor of an attempt that was given up is among them: an
\* attempt begins with an update without anchors, every anchor that a step of the attempt
\* adds is anchored at the head of the attempt's chain_update, and the step that returns
\* the update leaves its graph as the attempt made it.
AnchorsOfReturnedAttempt ==
    /\ [](ScanReturnedOk => \A a \in UpdateAnchors : a.anchor_block = update.chain_update)
    /\ [][/\ (s_pc = "reconcile" /\ s_pc' = "spks") =>
                /\ update'.graph_update = EmptyMap
                /\ s_anchor_block' = update'.chain_update
          /\ (s_pc \in {"spks", "lookups"} /\ s_pc' \in {"lookups", "check"}) =>
                /\ update'.chain_update = update.chain_update
                /\ \A a \in AddedAnchors : a.anchor_block = update.chain_update
          /\ (s_pc = "check" /\ s_result'.tag = "Ok") =>
                /\ update'.graph_update = update.graph_update
                /\ update'.chain_update = update.chain_update
         ]_vars

\* scan gave up an attempt anchored on the local chain and returned, from a later
\* attempt, an update with anchors whose head is a block of another branch.
AnchorsOfReturnedAttemptWitness ==
    /\ ScanReturnedOk
    /\ attempts >= 2
    /\ ~OnLocal(update.chain_update.hash)
    /\ UpdateAnchors # {}

\* C34: in an update that scan returns, whatever the number of attempts, every script
\* that the records of scanned scripts hold as used, the script at the index of each
\* keychain in keychain_update among them, has each txid of its history on the server
\* as a key of graph_update.
UsedScriptsInGraph ==
    ScanReturnedOk =>
        \A key \in DOMAIN scanned_spks :
            scanned_spks[key].used =>
                \A j \in 1..Len(HistoryOf(scanned_spks[key].spk)) :
                    HistoryOf(scanned_spks[key].spk)[j].tx_hash \in DOMAIN update.graph_update

\* C37: a call of scan, and a call of prepare_chain_update, against a remote whose tip
\* changes a bounded number of times returns: the loop of prepare_chain_update that
\* starts over on a tip notification and the loop of scan that starts over on a stale
\* anchor block come to an end, and a call that no remote call of which failed returns
\* an update.
RetryLoopsEnd ==
    /\ <>(pc = "done" \/ s_pc = "done")
    /\ [](s_pc = "done" /\ s_fault.err = "" => s_result.tag = "Ok")
    /\ [](pc = "done" /\ reply.err = "" => result.tag = "Ok")

\* scan returned an update from an attempt after the first, and prepare_chain_update
\* returned after it had started over.
ScanRetriedAndReturned == ScanReturnedOk /\ attempts >= 2 /\ s_events = MaxEvents

\* C38: when batch_block_header of finalize_as_confirmation_time returns one header for
\* each height it was asked for, the confirmation height of every anchor is a key of
\* height_to_time: the lookup of line 109 does not panic and the update is returned.
TimeLookupNeverFails ==
    \A j \in CallsOf("batch_block_header") :
        (f_log[j].err = "" /\ Len(f_log[j].val) = Len(f_log[j].arg)) =>
            /\ final.tag = "Ok"
            /\ \A x \in GraphMapAnchors(update) :
                x.anchor.confirmation_height \in
                    DOMAIN HeightToTime(f_log[j].arg, f_log[j].val)

\* One height was asked for and answered, for three anchors of two transactions that
\* all share it.
TimeLookupNeverFailsWitness ==
    /\ f_pc = "done"
    /\ final.tag = "Ok"
    /\ \E j \in CallsOf("batch_block_header") :
        Len(f_log[j].arg) = 1 /\ Len(f_log[j].val) = 1
    /\ Cardinality(final.graph.anchors) >= 3
    /\ Cardinality({x.txid : x \in final.graph.anchors}) = 2

\* C32: the network of a DbCommitment, once Some, stays what it is: after appends that
\* completed it is the first Some network that was appended (None if there was none),
\* and an append of a changeset with another Some network does not complete.
NetworkNeverChanges ==
    /\ [](c_op \in {"db_stage", "db_commit"} =>
            staged.network = (IF since = <<>> THEN "" ELSE since[1]))
    /\ [][\A c \in DbCommitments :
            DbStage(c) =>
                /\ (staged.network # "" /\ c_op' = "db_stage") =>
                        staged'.network = staged.network
                /\ (staged.network # "" /\ c.network # "" /\ c.network # staged.network) =>
                        c_op' = "db_panic"
                /\ c_op' = "db_panic" => staged' = staged
         ]_vars

\* An append with another network was attempted on a value that had taken its network
\* from the second changeset appended to it.
NetworkNeverChangesWitness ==
    /\ c_op = "db_panic"
    /\ since = <<"testnet">>
    /\ staged.network = "testnet"
    /\ staged.chain # {}

\* C36: appending a changeset whose is_empty() is true leaves every field of the
\* DbCommitment it is appended to as it was.
EmptyIsIdentityOfAppend ==
    [][\A c \in DbCommitments :
        (DbStage(c) /\ DbIsEmpty(c) /\ c_op' = "db_stage") => staged' = staged]_vars

============================================================================
